---- MODULE Spec2Model ----
(***************************************************************************)
(* Byte-level model of the RD_v1.2 ramdisk engine of qnxdemotools          *)
(* (src/qnxdd.py, classes Ramdisk and Entry).                              *)
(*                                                                         *)
(* The image buffer self._raw is a sequence of bytes.  Python offsets are  *)
(* 0-based; the sequence is 1-based, so byte offset k is element k + 1.    *)
(* Slice and SetSlice carry Python's slice semantics, clamping included.   *)
(* Entry records are 119-byte sequences, names are byte sequences.         *)
(***************************************************************************)
EXTENDS Integers, Sequences, FiniteSets, TLC

VARIABLES
    phase,        \* "init" before Ramdisk(in_file), "loaded", or "rejected";
                  \* of a script also "aborted", "exited", "crashed"; of
                  \* dexordd "disk", "unpacked", "unpack_failed", "packed",
                  \* "pack_failed"
    infile,       \* bytes of the ramdisk file given to Ramdisk.__init__, or
                  \* of the demodisk file given to dexordd
    raw,          \* Ramdisk._raw; for dexordd the buffer xor_cipher works on
    sector_size,  \* Ramdisk._sector_size
    size,         \* Ramdisk._size
    path,         \* Ramdisk._path, a sequence of Entry records; path[1] is _base
    local,        \* local working directory: file name -> contents
    outfile,      \* the file written by commit (NoFile before the first commit)
    last,         \* the last command and what it returned; of a script line
                  \* also its argument and what it printed
    mutated,      \* history: an inject, rm, rmdir or flags was issued since
                  \* load; for dexordd, the unpacked ramdisk file was replaced
    nops          \* number of commands issued in this session

vars == <<phase, infile, raw, sector_size, size, path, local, outfile, last,
          mutated, nops>>

----------------------------------------------------------------------------
(* Bounds of the model. *)

\* number of sectors of the images the session starts from
NumSectors == 7

\* commands per session
MaxOps == 3

----------------------------------------------------------------------------
(* Python primitives. *)

Min(a, b) == IF a < b THEN a ELSE b
Max(a, b) == IF a > b THEN a ELSE b

Zeros(n) == [i \in 1..n |-> 0]

\* s[a:b]
Slice(s, a, b) == SubSeq(s, a + 1, Min(b, Len(s)))

\* s[a:b] = v   (the slice is replaced, the length may change)
SetSlice(s, a, b, v) ==
    LET n  == Len(s)
        lo == Min(a, n)
        hi == Max(lo, Min(b, n))
    IN  SubSeq(s, 1, lo) \o v \o SubSeq(s, hi + 1, n)

\* s[k] = b
SetByte(s, k, b) == [s EXCEPT ![k + 1] = b]

\* int.from_bytes(bs, "little")
RECURSIVE FromLE(_)
FromLE(bs) == IF bs = <<>> THEN 0 ELSE bs[1] + 256 * FromLE(Tail(bs))

\* int.to_bytes(v, n, "little")
ToLE(v, n) == [i \in 1..n |-> (v \div (256 ^ (i - 1))) % 256]

\* math.ceil(a / b)
CeilDiv(a, b) == (a + b - 1) \div b

\* Python's < on str (code points, a proper prefix is smaller)
RECURSIVE StrLess(_, _)
StrLess(a, b) ==
    IF b = <<>> THEN FALSE
    ELSE IF a = <<>> THEN TRUE
    ELSE IF a[1] # b[1] THEN a[1] < b[1]
    ELSE StrLess(Tail(a), Tail(b))

\* a file that does not exist (no byte string holds -1)
NoFile == <<-1>>

----------------------------------------------------------------------------
(* class Ramdisk: offsets and magic numbers. *)

MAGIC_START == 0
MAGIC_END == 8
MAGIC == <<82, 68, 95, 118, 49, 46, 50, 0>>
SIZE_START == 8
SIZE_END == 12
SECTOR_SIZE_START == 12
SECTOR_SIZE_END == 14
BASE_OFFSET == 14
CHECKVAL_START == 22
CHECKVAL_END == 24
CHECKVAL == 22
SECTOR_MAP_START == 133
ENTRY_SIZE_MAGIC == 105

(* class Entry: offsets and magic numbers.  The type tags 0x00000000,      *)
(* 0x81000000 and 0x80000000 are kept as the four bytes that               *)
(* int.from_bytes(..., "little") decodes to them.                          *)
ENTRY_SIZE == 119
TYPE_OFFSET == 0
TYPE_EMPTY == <<0, 0, 0, 0>>
TYPE_LINK == <<0, 0, 0, 129>>
TYPE_FILEDIR == <<0, 0, 0, 128>>
MAX_SIZE_OFFSET == 4
FAT_OFFSET == 8
LINK_NAME_OFFSET == 12
SIZE_OFFSET == 16
FLAGS_OFFSET == 50
DEFAULT_FILE == 33277
ALT_FILE_1 == 33188
ALT_FILE_2 == 33204
DEFAULT_DIR == 16893
VALID_FLAGS == {DEFAULT_FILE, ALT_FILE_1, ALT_FILE_2, DEFAULT_DIR}
CONTAINS_OFFSET == 56
NAME_OFFSET == 64
NAME_LENGTH == 48
DEST_OFFSET == 115

----------------------------------------------------------------------------
(* class Entry.  An Entry is its 119-byte record; every accessor reads or  *)
(* writes through the bytes.                                               *)

\* Entry(): a fresh zero record
EmptyEntry == Zeros(ENTRY_SIZE)

\* Entry._is_invalid_char
IsInvalidChar(c) == c <= 31 \/ c \in {47, 127, 255}

\* Entry.contains (getter)
Contains(e) == FromLE(Slice(e, CONTAINS_OFFSET, CONTAINS_OFFSET + 4))

\* the match statement of Entry.etype (getter) on the type tag
EtypeOfTag(header, contains) ==
    IF header = TYPE_EMPTY THEN "empty"
    ELSE IF header = TYPE_LINK THEN "link"
    ELSE IF header = TYPE_FILEDIR
         THEN (IF contains = 1 THEN "file" ELSE "dir")
    ELSE "bad"

\* Entry.etype (getter)
Etype(e) == EtypeOfTag(Slice(e, TYPE_OFFSET, TYPE_OFFSET + 4), Contains(e))

\* the guard of the setters: self.etype == "dir" or self.etype == "file"
IsFileOrDir(e) == Etype(e) \in {"dir", "file"}

\* Entry.etype (setter)
SetEtype(e, in_type) ==
    IF Etype(e) # "empty" THEN e
    ELSE SetSlice(e, TYPE_OFFSET, TYPE_OFFSET + 4,
                  CASE in_type = "empty" -> TYPE_EMPTY
                    [] in_type = "link"  -> TYPE_LINK
                    [] in_type = "file"  -> TYPE_FILEDIR
                    [] in_type = "dir"   -> TYPE_FILEDIR)

\* the while loop of Entry.name (getter): the first zero byte at or after
\* name_start + 1 (an entry without one has the loop run off the record)
RECURSIVE NameEnd(_, _)
NameEnd(e, name_end) ==
    IF name_end >= Len(e) THEN Len(e)
    ELSE IF e[name_end + 1] # 0 THEN NameEnd(e, name_end + 1)
    ELSE name_end

\* Entry.name (getter) for an entry of type etype
NameAs(e, etype) ==
    IF etype = "empty" THEN <<>>
    ELSE IF etype = "link"
         THEN Slice(e, LINK_NAME_OFFSET, NameEnd(e, LINK_NAME_OFFSET + 1))
    ELSE Slice(e, NAME_OFFSET, NameEnd(e, NAME_OFFSET + 1))

\* Entry.name (getter)
Name(e) == NameAs(e, Etype(e))

\* Entry.name (setter), in_name already cut to NAME_LENGTH characters
SetNameCut(e, nm) ==
    IF \E i \in 1..Len(nm) : IsInvalidChar(nm[i]) THEN e
    ELSE IF IsFileOrDir(e)
         THEN SetSlice(e, NAME_OFFSET, NAME_OFFSET + NAME_LENGTH,
                       nm \o Zeros(NAME_LENGTH - Len(nm)))
    ELSE e

\* Entry.name (setter)
SetName(e, in_name) ==
    SetNameCut(e, IF Len(in_name) >= NAME_LENGTH
                  THEN Slice(in_name, 0, NAME_LENGTH) ELSE in_name)

\* Entry.max_size (getter / setter)
MaxSizeOf(e) ==
    IF IsFileOrDir(e)
    THEN FromLE(Slice(e, MAX_SIZE_OFFSET, MAX_SIZE_OFFSET + 4)) ELSE 0

SetMaxSize(e, v) ==
    IF IsFileOrDir(e)
    THEN SetSlice(e, MAX_SIZE_OFFSET, MAX_SIZE_OFFSET + 4, ToLE(v, 4)) ELSE e

\* Entry.fat_offset (getter / setter)
FatOffsetOf(e) ==
    IF Etype(e) = "link" THEN FromLE(Slice(e, FAT_OFFSET, FAT_OFFSET + 4))
    ELSE FromLE(Slice(e, FAT_OFFSET, FAT_OFFSET + 4)) - 8

SetFatOffset(e, v) ==
    IF IsFileOrDir(e)
    THEN SetSlice(e, FAT_OFFSET, FAT_OFFSET + 4, ToLE(v + 8, 4)) ELSE e

\* Entry.size (getter / setter)
SizeOf(e) == FromLE(Slice(e, SIZE_OFFSET, SIZE_OFFSET + 4))

SetSize(e, v) ==
    IF IsFileOrDir(e)
    THEN SetSlice(e, SIZE_OFFSET, SIZE_OFFSET + 4, ToLE(v, 4)) ELSE e

\* Entry.flags (getter / setter)
FlagsOf(e) == FromLE(Slice(e, FLAGS_OFFSET, FLAGS_OFFSET + 2))

SetFlags(e, v) ==
    IF IsFileOrDir(e)
    THEN SetSlice(e, FLAGS_OFFSET, FLAGS_OFFSET + 2, ToLE(v, 2)) ELSE e

\* SetContains without the write of byte 63
SetContainsPlain(e, v) ==
    IF Etype(e) = "dir" \/ (Etype(e) = "file" /\ v >= 1)
    THEN SetSlice(e, CONTAINS_OFFSET, CONTAINS_OFFSET + 4, ToLE(v, 4))
    ELSE e

\* Entry.contains (setter): "dir or (file and in_value >= 1)"
SetContains(e, v) ==
    IF Etype(e) = "dir" \/ (Etype(e) = "file" /\ v >= 1)
    THEN SetByte(SetSlice(e, CONTAINS_OFFSET, CONTAINS_OFFSET + 4, ToLE(v, 4)),
                 63, 1)
    ELSE e

\* Entry.dest_offset (getter / setter)
DestOffsetOf(e) == FromLE(Slice(e, DEST_OFFSET, Len(e)))

SetDestOffset(e, v) ==
    IF IsFileOrDir(e)
    THEN SetSlice(e, DEST_OFFSET, DEST_OFFSET + 4, ToLE(v, 4)) ELSE e

----------------------------------------------------------------------------
(* class Ramdisk: sector map.  r is the image buffer self._raw.            *)

\* number of sector headers _list_free collects:
\* "while test_sector * self._sector_size < len(self._raw)"
NumHeaders(r) == CeilDiv(Len(r), sector_size)

\* sector_headers[i] of _list_free
SectorHeader(r, i) ==
    FromLE(Slice(r, i * sector_size, i * sector_size + 4)) \div sector_size

\* sector_headers of _list_free; element i + 1 is sector_headers[i]
SectorHeaders(r) == [k \in 1..NumHeaders(r) |-> SectorHeader(r, k - 1)]

\* the for loop of _list_free over sector_headers; element i + 1 of the
\* result is sector_free[i], TRUE meaning free
SectorFree(r, hdr) ==
    [k \in 1..Len(hdr) |->
        IF hdr[k] # 0 \/ (\E j \in 1..Len(hdr) : hdr[j] = k - 1) THEN FALSE
        ELSE IF Cardinality({r[j] : j \in ((k - 1) * sector_size + 1)..
                                           Min(k * sector_size, Len(r))}) > 1
             THEN FALSE
        ELSE TRUE]

\* Ramdisk._list_free
ListFree(r) == SectorFree(r, SectorHeaders(r))

\* FirstFree taking the highest free index in place of the lowest
FirstFreeHighest(free_sectors) ==
    CHOOSE k \in 1..Len(free_sectors) :
        free_sectors[k] /\ \A m \in (k + 1)..Len(free_sectors) : ~free_sectors[m]

\* free_sectors.index(True)
FirstFree(free_sectors) ==
    CHOOSE k \in 1..Len(free_sectors) :
        free_sectors[k] /\ \A m \in 1..(k - 1) : ~free_sectors[m]

\* the loop of Ramdisk._alloc over the list free_sectors
RECURSIVE AllocLoop(_, _, _)
RECURSIVE AllocTake(_, _, _, _)
\* AllocLoop returning what it collected when the free sectors run out
AllocLoopPartial(free_sectors, alloc_sectors, in_request) ==
    IF \A k \in 1..Len(free_sectors) : ~free_sectors[k] THEN alloc_sectors
    ELSE AllocTake(free_sectors, alloc_sectors, in_request,
                   FirstFree(free_sectors))

AllocLoop(free_sectors, alloc_sectors, in_request) ==
    IF \A k \in 1..Len(free_sectors) : ~free_sectors[k] THEN <<>>
    ELSE AllocTake(free_sectors, alloc_sectors, in_request,
                   FirstFree(free_sectors))

\* one turn of the loop, tmp_sector being index k - 1
AllocTake(free_sectors, alloc_sectors, in_request, k) ==
    IF Len(alloc_sectors) + 1 = in_request
    THEN Append(alloc_sectors, (k - 1) * sector_size)
    ELSE AllocLoop([free_sectors EXCEPT ![k] = FALSE],
                   Append(alloc_sectors, (k - 1) * sector_size), in_request)

\* Ramdisk._alloc
Alloc(r, in_request) == AllocLoop(ListFree(r), <<>>, in_request)

\* Ramdisk.listfree: indices of the free sectors
ListFreeIndices(r) == {k - 1 : k \in {m \in 1..NumHeaders(r) : ListFree(r)[m]}}

----------------------------------------------------------------------------
(* class Ramdisk: traversal. *)

\* the longest walk along next-pointers that is followed; an acyclic chain
\* of an image visits each sector at most once
MaxHops(r) == NumHeaders(r) + 1

\* the while loop of _get_sector_list, cut after fuel steps
RECURSIVE FollowChain(_, _, _)
FollowChain(r, sectors, fuel) ==
    IF sectors[Len(sectors)] = 0 \/ fuel = 0 THEN sectors
    ELSE FollowChain(r,
                     Append(sectors,
                            FromLE(Slice(r, sectors[Len(sectors)],
                                         sectors[Len(sectors)] + 4))),
                     fuel - 1)

\* sectors.pop(-1)
DropLast(sectors) == SubSeq(sectors, 1, Len(sectors) - 1)

\* Ramdisk._get_sector_list
GetSectorList(r, in_entry) ==
    DropLast(FollowChain(r, <<DestOffsetOf(in_entry)>>, MaxHops(r)))

\* the entries _get_dir_contents cuts out of raw_directory
CutEntries(raw_directory) ==
    [k \in 1..(Len(raw_directory) \div ENTRY_SIZE) |->
        Slice(raw_directory, ENTRY_SIZE * (k - 1),
              ENTRY_SIZE * (k - 1) + ENTRY_SIZE)]

\* the entries _get_dir_contents yields for one sector
SectorEntries(r, sector) ==
    CutEntries(Slice(r, sector + 4, sector + sector_size - 4))

RECURSIVE ConcatEntries(_, _)
ConcatEntries(r, sectors) ==
    IF sectors = <<>> THEN <<>>
    ELSE SectorEntries(r, Head(sectors)) \o ConcatEntries(r, Tail(sectors))

\* Ramdisk._get_dir_contents, as the list of what the generator yields
GetDirContents(r, in_dir) == ConcatEntries(r, GetSectorList(r, in_dir))

\* Ramdisk._get_entry; NoEntry stands for None
NoEntry == <<>>

\* Matches without the comparison of the entry's type
MatchesAnyType(entry, in_name, in_type) ==
    in_type = "empty" \/ Name(entry) = in_name

\* the test of _get_entry on one entry
Matches(entry, in_name, in_type) ==
    /\ Etype(entry) = in_type
    /\ (in_type = "empty" \/ Name(entry) = in_name)

\* the for loop of _get_entry
RECURSIVE FirstMatch(_, _, _)
FirstMatch(entries, in_name, in_type) ==
    IF entries = <<>> THEN NoEntry
    ELSE IF Matches(Head(entries), in_name, in_type) THEN Head(entries)
    ELSE FirstMatch(Tail(entries), in_name, in_type)

\* Ramdisk._get_entry on the current directory cur
GetEntry(r, cur, in_name, in_type) ==
    FirstMatch(GetDirContents(r, cur), in_name, in_type)

\* Ramdisk._entry_exists
EntryExists(r, cur, in_name) ==
    \E etype \in {"links", "dir", "file"} :
        GetEntry(r, cur, in_name, etype) # NoEntry

\* _write_entry that stores the record as it is, fat_offset included
WrittenEntryAsIs(in_entry, in_offset) == in_entry

\* Ramdisk._write_entry: the Entry object after the write
WrittenEntry(in_entry, in_offset) ==
    IF Etype(in_entry) # "empty" THEN SetFatOffset(in_entry, in_offset)
    ELSE in_entry

\* Ramdisk._write_entry: the image after the write
WriteEntry(r, in_entry, in_offset) ==
    SetSlice(r, in_offset, in_offset + ENTRY_SIZE,
             WrittenEntry(in_entry, in_offset))

\* ZeroSector that assigns one zero more than the slice is long
ZeroSectorLong(r, in_sector) ==
    SetSlice(r, in_sector, in_sector + sector_size, Zeros(sector_size + 1))

\* Ramdisk._zero_sector
ZeroSector(r, in_sector) ==
    SetSlice(r, in_sector, in_sector + sector_size, Zeros(sector_size))

----------------------------------------------------------------------------
(* class Ramdisk: _optimize. *)

\* floor((sector_size - 4) / ENTRY_SIZE), the per-sector capacity used for
\* max_size and for inject's slot computation
EntriesPerSector == (sector_size - 4) \div ENTRY_SIZE

\* filter of a list of entries by etype, order kept
RECURSIVE OfType(_, _)
OfType(entries, etype) ==
    IF entries = <<>> THEN <<>>
    ELSE IF Etype(Head(entries)) = etype
         THEN <<Head(entries)>> \o OfType(Tail(entries), etype)
    ELSE OfType(Tail(entries), etype)

\* sorted(entries, key=lambda e: e.name): stable, ascending by name
RECURSIVE InsertByName(_, _)
InsertByName(sorted, e) ==
    IF sorted = <<>> THEN <<e>>
    ELSE IF StrLess(Name(e), Name(sorted[Len(sorted)]))
         THEN Append(InsertByName(SubSeq(sorted, 1, Len(sorted) - 1), e),
                     sorted[Len(sorted)])
    ELSE Append(sorted, e)

RECURSIVE SortedFrom(_, _)
SortedFrom(sorted, entries) ==
    IF entries = <<>> THEN sorted
    ELSE SortedFrom(InsertByName(sorted, Head(entries)), Tail(entries))

SortByName(entries) == SortedFrom(<<>>, entries)

\* the while loop of _optimize over one directory sector, then the zeroing of
\* the rest of the sector; queue is links, then dirs, then files
RECURSIVE RewriteSector(_, _, _, _)
RewriteSector(r, queue, sector, tmp_offset) ==
    IF tmp_offset + ENTRY_SIZE < sector_size /\ queue # <<>>
    THEN RewriteSector(WriteEntry(r, Head(queue), sector + tmp_offset),
                       Tail(queue), sector, tmp_offset + ENTRY_SIZE)
    ELSE [raw   |-> SetSlice(r, sector + tmp_offset, sector + sector_size,
                             Zeros(sector_size - tmp_offset)),
          queue |-> queue]

\* "for sector in sectors" of _optimize
RECURSIVE RewriteSectors(_, _, _)
RECURSIVE RewriteRest(_, _)
RewriteSectors(r, queue, sectors) ==
    IF sectors = <<>> THEN r
    ELSE RewriteRest(RewriteSector(r, queue, Head(sectors), 4), Tail(sectors))

\* the sectors after the one that left image and queue as in one
RewriteRest(one, sectors) == RewriteSectors(one.raw, one.queue, sectors)

\* sector_map: "0" for a free sector, "1" otherwise
FreeToBits(sector_free) ==
    [k \in 1..Len(sector_free) |-> IF sector_free[k] THEN 0 ELSE 1]

\* sector_map extended with "0" to a multiple of 8
PadBits(sector_map) ==
    IF Len(sector_map) % 8 # 0
    THEN sector_map \o Zeros(8 - (Len(sector_map) % 8))
    ELSE sector_map

\* the bits of the sector map _optimize builds
MapBits(r) == PadBits(FreeToBits(ListFree(r)))

\* PackBits without reversed(): the first bit of a group is the most
\* significant one
PackBitsUnreversed(bits) ==
    [k \in 1..(Len(bits) \div 8) |->
        128 * bits[8 * (k - 1) + 1] + 64 * bits[8 * (k - 1) + 2]
      + 32 * bits[8 * (k - 1) + 3]  + 16 * bits[8 * (k - 1) + 4]
      + 8 * bits[8 * (k - 1) + 5]   + 4 * bits[8 * (k - 1) + 6]
      + 2 * bits[8 * (k - 1) + 7]   + bits[8 * (k - 1) + 8]]

\* int(''.join(reversed(bits[8k : 8k + 8])), 2) for each byte
PackBits(bits) ==
    [k \in 1..(Len(bits) \div 8) |->
        bits[8 * (k - 1) + 1]       + 2 * bits[8 * (k - 1) + 2]
      + 4 * bits[8 * (k - 1) + 3]   + 8 * bits[8 * (k - 1) + 4]
      + 16 * bits[8 * (k - 1) + 5]  + 32 * bits[8 * (k - 1) + 6]
      + 64 * bits[8 * (k - 1) + 7]  + 128 * bits[8 * (k - 1) + 8]]

\* updated_map of _optimize
UpdatedMap(r) == PackBits(MapBits(r))

\* WriteSectorMap that writes the map one byte further on
WriteSectorMapShifted(r) ==
    SetSlice(r, SECTOR_MAP_START + 1,
             SECTOR_MAP_START + 1 + Len(UpdatedMap(r)), UpdatedMap(r))

\* the last statement of _optimize
WriteSectorMap(r) ==
    SetSlice(r, SECTOR_MAP_START, SECTOR_MAP_START + Len(UpdatedMap(r)),
             UpdatedMap(r))

\* the end of _optimize: the sector map is written, and the record cur of
\* the current directory is the top of the path stack.  ok is FALSE when
\* next(entries) raised StopIteration, TRUE when _optimize returned.
OptimizeFinish(r, p, cur) ==
    [ok |-> TRUE, raw |-> WriteSectorMap(r), path |-> [p EXCEPT ![Len(p)] = cur]]

\* the write-back of the shrunk record of the current directory
OptimizeShrunk(r, p, cur) ==
    OptimizeFinish(WriteEntry(r, cur, FatOffsetOf(cur)), p,
                   WrittenEntry(cur, FatOffsetOf(cur)))

\* OptimizeDrop that leaves the next-pointer of the predecessor in place
OptimizeDropLinked(r, p, sectors, total_count, cur) ==
    IF EntriesPerSector * (Len(sectors) - 1) >= total_count
    THEN OptimizeShrunk(ZeroSector(r, sectors[Len(sectors)]), p,
                        SetMaxSize(cur, MaxSizeOf(cur) - EntriesPerSector))
    ELSE OptimizeFinish(r, p, cur)

\* "if entries_per_sector * (len(sectors) - 1) >= total_count": the last
\* sector of the chain is zeroed and unlinked, max_size shrinks
OptimizeDrop(r, p, sectors, total_count, cur) ==
    IF EntriesPerSector * (Len(sectors) - 1) >= total_count
    THEN OptimizeShrunk(
             SetSlice(ZeroSector(r, sectors[Len(sectors)]),
                      sectors[Len(sectors) - 1],
                      sectors[Len(sectors) - 1] + 4, Zeros(4)),
             p, SetMaxSize(cur, MaxSizeOf(cur) - EntriesPerSector))
    ELSE OptimizeFinish(r, p, cur)

\* the record cur of the current directory is written back, then the
\* directory sectors are rewritten from queue
OptimizeRewrite(r, p, sectors, queue, cur) ==
    OptimizeDrop(RewriteSectors(WriteEntry(r, cur, FatOffsetOf(cur)),
                                queue, sectors),
                 p, sectors, Len(queue), WrittenEntry(cur, FatOffsetOf(cur)))

\* Recounted with size taken from the count of links and dirs alone
RecountedWithoutFiles(cur, link_dir_count, total_count, chain_len) ==
    SetMaxSize(SetSize(SetContains(cur, link_dir_count),
                       link_dir_count * ENTRY_SIZE_MAGIC),
               chain_len * EntriesPerSector)

\* contains, size and max_size of the current directory, recomputed
Recounted(cur, link_dir_count, total_count, chain_len) ==
    SetMaxSize(SetSize(SetContains(cur, link_dir_count),
                       total_count * ENTRY_SIZE_MAGIC),
               chain_len * EntriesPerSector)

\* _optimize once links, sorted dirs and sorted files are known
OptimizeSorted(r, p, sectors, links, dirs, files) ==
    OptimizeRewrite(r, p, sectors, links \o dirs \o files,
                    Recounted(p[Len(p)], Len(links) + Len(dirs),
                              Len(links) + Len(dirs) + Len(files),
                              Len(sectors)))

\* _optimize on the chain sectors and the slots entries of the directory
OptimizeDir(r, p, sectors, entries) ==
    IF Len(entries) < 2 THEN [ok |-> FALSE, raw |-> r, path |-> p]
    ELSE OptimizeSorted(
             r, p, sectors, SubSeq(entries, 1, 2),
             SortByName(OfType(SubSeq(entries, 3, Len(entries)), "dir")),
             SortByName(OfType(SubSeq(entries, 3, Len(entries)), "file")))

\* Ramdisk._optimize on image r with path stack p
Optimize(r, p) ==
    OptimizeDir(r, p, GetSectorList(r, p[Len(p)]),
                GetDirContents(r, p[Len(p)]))

----------------------------------------------------------------------------
(* class Ramdisk: the commands.  Each operator gives the outcome of one    *)
(* call on image r, path stack p and local files f: res is "ok" (True),    *)
(* "fail" (False) or "raise" (an exception left the call), and raw, path,  *)
(* local are the state the call leaves behind.                             *)

Outcome(res, r, p, f) == [res |-> res, raw |-> r, path |-> p, local |-> f]

\* the outcome of a command that ends with "self._optimize(); return True",
\* r being the image _optimize was called on
Optimizing(opt, r, p, f) ==
    IF opt.ok THEN Outcome("ok", opt.raw, opt.path, f)
    ELSE Outcome("raise", r, p, f)

\* WritePayload with sectors[i] for sectors[i + 1]: each sector but the last
\* is linked to itself
RECURSIVE WritePayloadSelfLink(_, _, _, _, _)
WritePayloadSelfLink(r, sectors, i, inject_bin, read_offset) ==
    IF i > Len(sectors) THEN r
    ELSE IF i < Len(sectors)
    THEN WritePayloadSelfLink(
             SetSlice(SetSlice(r, sectors[i], sectors[i] + 4,
                               ToLE(sectors[i], 4)),
                      sectors[i] + 4, sectors[i] + sector_size,
                      Slice(inject_bin, read_offset,
                            read_offset + sector_size - 4)),
             sectors, i + 1, inject_bin, read_offset + sector_size - 4)
    ELSE SetSlice(r, sectors[i] + 4,
                  sectors[i] + Len(Slice(inject_bin, read_offset,
                                         Len(inject_bin))) + 4,
                  Slice(inject_bin, read_offset, Len(inject_bin)))

\* "for i, sector in enumerate(sectors)" of inject, from index i on
RECURSIVE WritePayload(_, _, _, _, _)
WritePayload(r, sectors, i, inject_bin, read_offset) ==
    IF i > Len(sectors) THEN r
    ELSE IF i < Len(sectors)
    THEN WritePayload(
             SetSlice(SetSlice(r, sectors[i], sectors[i] + 4,
                               ToLE(sectors[i + 1], 4)),
                      sectors[i] + 4, sectors[i] + sector_size,
                      Slice(inject_bin, read_offset,
                            read_offset + sector_size - 4)),
             sectors, i + 1, inject_bin, read_offset + sector_size - 4)
    ELSE SetSlice(r, sectors[i] + 4,
                  sectors[i] + Len(Slice(inject_bin, read_offset,
                                         Len(inject_bin))) + 4,
                  Slice(inject_bin, read_offset, Len(inject_bin)))

\* the Entry inject builds for the new file
NewFileEntry(in_name, length, sectors_needed, dest) ==
    SetFlags(
        SetDestOffset(
            SetMaxSize(
                SetSize(SetName(SetContains(SetEtype(EmptyEntry, "file"), 1),
                                in_name),
                        length),
                sectors_needed * (sector_size - 4)),
            dest),
        DEFAULT_FILE)

\* "grow_dir = (cur_entry.size // ENTRY_SIZE_MAGIC) == cur_entry.max_size"
GrowDir(cur) == (SizeOf(cur) \div ENTRY_SIZE_MAGIC) = MaxSizeOf(cur)

\* SectorsNeeded with len // (sector_size - 4) + 1 in place of math.ceil
SectorsNeededFloor(inject_bin, grow_dir) ==
    Len(inject_bin) \div (sector_size - 4) + 1 + (IF grow_dir THEN 1 ELSE 0)

\* sectors_needed of inject
SectorsNeeded(inject_bin, grow_dir) ==
    CeilDiv(Len(inject_bin), sector_size - 4) + (IF grow_dir THEN 1 ELSE 0)

\* entry_offset of inject when the directory does not grow
SlotOffset(cur, dir_sectors) ==
    ((SizeOf(cur) \div ENTRY_SIZE_MAGIC) % EntriesPerSector) * ENTRY_SIZE
        + dir_sectors[Len(dir_sectors)] + 4

\* the end of inject and of _rm_entry: "self._optimize()", "return True"
OptimizeAndReturn(r, p, f) == Optimizing(Optimize(r, p), r, p, f)

\* inject from "entry = Entry()" on: r is the image with the directory
\* chain already extended, sectors the payload sectors.
\* entry.dest_offset = sectors[0] raises IndexError on an empty list.
InjectPlace(r, p, f, in_name, inject_bin, sectors_needed, sectors, entry_offset) ==
    IF sectors = <<>> THEN Outcome("raise", r, p, f)
    ELSE OptimizeAndReturn(
             WritePayload(
                 WriteEntry(r, NewFileEntry(in_name, Len(inject_bin),
                                            sectors_needed, sectors[1]),
                            entry_offset),
                 sectors, 1, inject_bin, 0),
             p, f)

\* "if grow_dir": the first allocated sector extends the directory chain
InjectGrow(r, p, f, in_name, inject_bin, sectors_needed, allocated, dir_sectors) ==
    IF Head(allocated) = 0 THEN Outcome("fail", r, p, f)
    ELSE InjectPlace(SetSlice(r, dir_sectors[Len(dir_sectors)],
                              dir_sectors[Len(dir_sectors)] + 4,
                              ToLE(Head(allocated), 4)),
                     p, f, in_name, inject_bin, sectors_needed,
                     Tail(allocated), Head(allocated) + 4)

\* inject once self._alloc(sectors_needed) returned allocated
InjectAllocated(r, p, f, in_name, inject_bin, grow_dir, sectors_needed, allocated) ==
    IF allocated = <<>> THEN Outcome("fail", r, p, f)
    ELSE IF grow_dir
    THEN InjectGrow(r, p, f, in_name, inject_bin, sectors_needed, allocated,
                    GetSectorList(r, p[Len(p)]))
    ELSE InjectPlace(r, p, f, in_name, inject_bin, sectors_needed, allocated,
                     SlotOffset(p[Len(p)], GetSectorList(r, p[Len(p)])))

\* inject once the local file is read into inject_bin
InjectBin(r, p, f, in_name, inject_bin, grow_dir) ==
    InjectAllocated(r, p, f, in_name, inject_bin, grow_dir,
                    SectorsNeeded(inject_bin, grow_dir),
                    Alloc(r, SectorsNeeded(inject_bin, grow_dir)))

\* Ramdisk.inject
Inject(r, p, f, in_name) ==
    IF EntryExists(r, p[Len(p)], in_name) THEN Outcome("fail", r, p, f)
    ELSE IF in_name \notin DOMAIN f \/ f[in_name] = NoFile
    THEN Outcome("fail", r, p, f)
    ELSE InjectBin(r, p, f, in_name, f[in_name], GrowDir(p[Len(p)]))

\* "for sector in self._get_sector_list(in_entry)" of _rm_entry
RECURSIVE ZeroSectors(_, _)
ZeroSectors(r, sectors) ==
    IF sectors = <<>> THEN r
    ELSE ZeroSectors(ZeroSector(r, Head(sectors)), Tail(sectors))

\* Ramdisk._rm_entry
RmEntry(r, p, f, in_entry) ==
    OptimizeAndReturn(
        WriteEntry(ZeroSectors(r, GetSectorList(r, in_entry)), EmptyEntry,
                   FatOffsetOf(in_entry)),
        p, f)

\* Ramdisk.rm once _get_entry returned entry
RmFound(r, p, f, entry) ==
    IF entry # NoEntry THEN RmEntry(r, p, f, entry)
    ELSE Outcome("fail", r, p, f)

\* Ramdisk.rm
Rm(r, p, f, in_name) ==
    RmFound(r, p, f, GetEntry(r, p[Len(p)], in_name, "file"))

\* "contents = [x for x in ... if x.etype == 'file' or x.etype == 'dir']"
FileDirs(entries) == OfType(entries, "dir") \o OfType(entries, "file")

\* RmdirFound without the look at the directory's contents
RmdirFoundUnchecked(r, p, f, entry) ==
    IF entry # NoEntry THEN RmEntry(r, p, f, entry)
    ELSE Outcome("fail", r, p, f)

\* Ramdisk.rmdir once _get_entry returned entry
RmdirFound(r, p, f, entry) ==
    IF entry # NoEntry
    THEN IF FileDirs(GetDirContents(r, entry)) # <<>>
         THEN Outcome("fail", r, p, f)
         ELSE RmEntry(r, p, f, entry)
    ELSE Outcome("fail", r, p, f)

\* Ramdisk.rmdir
Rmdir(r, p, f, in_name) ==
    RmdirFound(r, p, f, GetEntry(r, p[Len(p)], in_name, "dir"))

\* Ramdisk.cd once _get_entry returned entry
CdFound(r, p, f, entry) ==
    IF entry # NoEntry
    THEN Outcome("ok", r,
                 Append(p, Slice(r, FatOffsetOf(entry),
                                 FatOffsetOf(entry) + ENTRY_SIZE)), f)
    ELSE Outcome("fail", r, p, f)

\* "/".join(names)
RECURSIVE JoinSlash(_)
JoinSlash(names) ==
    IF names = <<>> THEN <<>>
    ELSE IF Len(names) = 1 THEN names[1]
    ELSE names[1] \o <<47>> \o JoinSlash(Tail(names))

\* Ramdisk.pwd; the result is a byte string, "/" being 47
Pwd(p) == <<47>> \o JoinSlash([k \in 1..(Len(p) - 1) |-> Name(p[k + 1])])

\* Cd whose ".." pops the root as well
CdPopsRoot(r, p, f, in_dir) ==
    IF in_dir = <<47>> THEN Outcome("ok", r, <<p[1]>>, f)
    ELSE IF in_dir = <<46>> THEN Outcome("ok", r, p, f)
    ELSE IF in_dir = <<46, 46>>
    THEN Outcome("ok", r, SubSeq(p, 1, Len(p) - 1), f)
    ELSE CdFound(r, p, f, GetEntry(r, p[Len(p)], in_dir, "dir"))

\* Ramdisk.cd; the names "/", "." and ".." are the byte strings 47, 46, 46 46
Cd(r, p, f, in_dir) ==
    IF in_dir = <<47>> THEN Outcome("ok", r, <<p[1]>>, f)
    ELSE IF in_dir = <<46>> THEN Outcome("ok", r, p, f)
    ELSE IF in_dir = <<46, 46>>
    THEN Outcome("ok", r, IF Len(p) > 1 THEN SubSeq(p, 1, Len(p) - 1) ELSE p, f)
    ELSE CdFound(r, p, f, GetEntry(r, p[Len(p)], in_dir, "dir"))

\* tmp_bytes of one turn of the while loop of dump
SectorPayload(r, current_sector, remaining_bytes) ==
    IF remaining_bytes < sector_size - 4
    THEN Slice(r, current_sector + 4, current_sector + remaining_bytes + 4)
    ELSE Slice(r, current_sector + 4, current_sector + sector_size)

\* the while loop of dump
RECURSIVE DumpBytes(_, _, _)
RECURSIVE DumpRest(_, _, _, _)
DumpBytes(r, sectors, remaining_bytes) ==
    IF sectors = <<>> THEN <<>>
    ELSE DumpRest(r, Tail(sectors), remaining_bytes,
                  SectorPayload(r, Head(sectors), remaining_bytes))

\* "remaining_bytes -= len(tmp_bytes)", then the next turn
DumpRest(r, sectors, remaining_bytes, tmp_bytes) ==
    tmp_bytes \o DumpBytes(r, sectors, remaining_bytes - Len(tmp_bytes))

\* Ramdisk.dump once _get_entry returned entry
DumpFound(r, p, f, in_name, entry) ==
    IF entry # NoEntry
    THEN Outcome("ok", r, p,
                 [f EXCEPT ![in_name] =
                     DumpBytes(r, GetSectorList(r, entry), SizeOf(entry))])
    ELSE Outcome("fail", r, p, f)

\* Ramdisk.dump: the bytes go to the local file of the same name
Dump(r, p, f, in_name) ==
    DumpFound(r, p, f, in_name, GetEntry(r, p[Len(p)], in_name, "file"))

\* Ramdisk.flags once _get_entry returned entry
FlagsFound(r, p, f, entry, tmp_flags) ==
    IF entry # NoEntry
    THEN Outcome("ok",
                 WriteEntry(r, SetFlags(entry, tmp_flags), FatOffsetOf(entry)),
                 p, f)
    ELSE Outcome("fail", r, p, f)

\* Flags without the test against VALID_FLAGS
FlagsUnchecked(r, p, f, in_name, tmp_flags) ==
    FlagsFound(r, p, f, GetEntry(r, p[Len(p)], in_name, "file"), tmp_flags)

\* Ramdisk.flags, in_flags already parsed by int(in_flags, 16)
Flags(r, p, f, in_name, tmp_flags) ==
    IF tmp_flags \notin VALID_FLAGS THEN Outcome("fail", r, p, f)
    ELSE FlagsFound(r, p, f, GetEntry(r, p[Len(p)], in_name, "file"),
                    tmp_flags)

----------------------------------------------------------------------------
(* The images and local files a session starts from. *)

\* sector sizes of the images
ImageSectorSizes == {256}

\* names as ASCII byte strings
NameA == <<97>>
NameB == <<98>>
NameD == <<100>>
NameE == <<101>>
NameZ == <<122>>
NameSlash == <<120, 47, 121>>
NameLong == [i \in 1..(NAME_LENGTH + 1) |-> 110]
NameDot == <<46>>
NameDotDot == <<46, 46>>
NameRoot == <<47>>

FileNames == {NameA, NameB, NameE, NameZ, NameSlash, NameLong}
DirNames == {NameD, NameDot, NameDotDot, NameRoot}

\* a link record "." or ".." stored at offset off
LinkRecord(off, name) ==
    SetSlice(SetSlice(SetSlice(EmptyEntry, TYPE_OFFSET, TYPE_OFFSET + 4, TYPE_LINK),
                      FAT_OFFSET, FAT_OFFSET + 4, ToLE(off, 4)),
             LINK_NAME_OFFSET, LINK_NAME_OFFSET + Len(name), name)

\* a directory record stored at offset off
DirRecord(off, name, occupants, chain_len, per_sector, dest) ==
    LET e1 == SetEtype(EmptyEntry, "dir")
        e2 == SetContains(e1, occupants)
        e3 == SetName(e2, name)
        e4 == SetSize(e3, occupants * ENTRY_SIZE_MAGIC)
        e5 == SetMaxSize(e4, chain_len * per_sector)
        e6 == SetDestOffset(e5, dest)
        e7 == SetFlags(e6, DEFAULT_DIR)
    IN  SetFatOffset(e7, off)

\* A well-formed image of NumSectors sectors of ss bytes: sector 0 holds the
\* header, the root directory is the chain of sectors 1 and 2 and holds ".",
\* ".." and the empty directory "d", whose chain is sector 3; the other
\* sectors are free.  The sector map is the one _optimize writes for it.
GoodImage(ss) ==
    LET per == (ss - 4) \div ENTRY_SIZE
        i0 == Zeros(NumSectors * ss)
        i1 == SetSlice(i0, MAGIC_START, MAGIC_END, MAGIC)
        i2 == SetSlice(i1, SIZE_START, SIZE_END, ToLE(NumSectors * ss, 4))
        i3 == SetSlice(i2, SECTOR_SIZE_START, SECTOR_SIZE_END, ToLE(ss, 2))
        i4 == SetSlice(i3, BASE_OFFSET, BASE_OFFSET + ENTRY_SIZE,
                       DirRecord(BASE_OFFSET, <<>>, 3, 2, per, ss))
        i5 == SetSlice(i4, SECTOR_MAP_START, SECTOR_MAP_START + 1, <<15>>)
        i6 == SetSlice(i5, ss, ss + 4, ToLE(2 * ss, 4))
        i7 == SetSlice(i6, ss + 4, ss + 4 + ENTRY_SIZE,
                       LinkRecord(ss + 4, NameDot))
        i8 == SetSlice(i7, ss + 4 + ENTRY_SIZE, ss + 4 + 2 * ENTRY_SIZE,
                       LinkRecord(ss + 4 + ENTRY_SIZE, NameDotDot))
        i9 == SetSlice(i8, 2 * ss + 4, 2 * ss + 4 + ENTRY_SIZE,
                       DirRecord(2 * ss + 4, NameD, 2, 1, per, 3 * ss))
        i10 == SetSlice(i9, 3 * ss + 4, 3 * ss + 4 + ENTRY_SIZE,
                        LinkRecord(3 * ss + 4, NameDot))
    IN  SetSlice(i10, 3 * ss + 4 + ENTRY_SIZE, 3 * ss + 4 + 2 * ENTRY_SIZE,
                 LinkRecord(3 * ss + 4 + ENTRY_SIZE, NameDotDot))

\* the same image with a wrong magic, and with a wrong checkval
BadMagicImage(ss) == SetByte(GoodImage(ss), 6, 51)
BadCheckvalImage(ss) == SetByte(GoodImage(ss), CHECKVAL_START, 23)

ImageFiles ==
    UNION {{GoodImage(ss), BadMagicImage(ss), BadCheckvalImage(ss)} :
           ss \in ImageSectorSizes}

\* the sector size written in the header of an image file
HeaderSectorSize(img) ==
    FromLE(Slice(img, SECTOR_SIZE_START, SECTOR_SIZE_END))

\* The local files, for an image of sector size ss: a one-byte file, a file
\* one byte longer than a sector's payload, an empty file, a file of four zero
\* bytes, a file whose name holds "/", and a file whose name is one character
\* longer than NAME_LENGTH.
LocalFiles(ss) ==
    [n \in FileNames \cup DirNames |->
        CASE n = NameA -> <<65>>
          [] n = NameB -> [i \in 1..(ss - 3) |-> 66]
          [] n = NameE -> <<>>
          [] n = NameZ -> <<0, 0, 0, 0>>
          [] n = NameSlash -> <<67>>
          [] n = NameLong -> <<68>>
          [] OTHER -> NoFile]

----------------------------------------------------------------------------
(* The session. *)

NoCommand == [op |-> "none", res |-> "none"]

Init ==
    /\ phase = "init"
    /\ infile \in ImageFiles
    /\ raw = <<>>
    /\ sector_size = 0
    /\ size = 0
    /\ path = <<>>
    /\ local = LocalFiles(HeaderSectorSize(infile))
    /\ outfile = NoFile
    /\ last = NoCommand
    /\ mutated = FALSE
    /\ nops = 0

\* Ramdisk.__init__: the file is read, then magic and checkval are tested
LoadAcceptsMagicOnly(img) == Slice(img, MAGIC_START, MAGIC_END) = MAGIC

LoadAccepts(img) ==
    /\ Slice(img, MAGIC_START, MAGIC_END) = MAGIC
    /\ FromLE(Slice(img, CHECKVAL_START, CHECKVAL_END)) = CHECKVAL

Load ==
    /\ phase = "init"
    /\ raw' = infile
    /\ IF LoadAccepts(infile)
       THEN /\ phase' = "loaded"
            /\ size' = FromLE(Slice(infile, SIZE_START, SIZE_END))
            /\ sector_size' = FromLE(Slice(infile, SECTOR_SIZE_START,
                                           SECTOR_SIZE_END))
            /\ path' = <<Slice(infile, BASE_OFFSET, BASE_OFFSET + ENTRY_SIZE)>>
            /\ last' = [op |-> "load", res |-> "ok"]
       ELSE /\ phase' = "rejected"
            /\ last' = [op |-> "load", res |-> "raise"]
            /\ UNCHANGED <<size, sector_size, path>>
    /\ UNCHANGED <<infile, local, outfile, mutated, nops>>

\* one command of a loaded session, with outcome result
Command(op, result, mutating) ==
    \E out \in {result} :
    /\ raw' = out.raw
    /\ path' = out.path
    /\ local' = out.local
    /\ last' = [op |-> op, res |-> out.res]
    /\ mutated' = (mutated \/ mutating)
    /\ nops' = nops + 1
    /\ UNCHANGED <<phase, infile, sector_size, size, outfile>>

Ready == phase = "loaded" /\ nops < MaxOps

DoInject ==
    /\ Ready
    /\ \E name \in FileNames \cup {NameD} :
           Command("inject", Inject(raw, path, local, name), TRUE)

DoRm ==
    /\ Ready
    /\ \E name \in FileNames \cup {NameD} :
           Command("rm", Rm(raw, path, local, name), TRUE)

DoRmdir ==
    /\ Ready
    /\ \E name \in {NameD, NameA} :
           Command("rmdir", Rmdir(raw, path, local, name), TRUE)

DoCd ==
    /\ Ready
    /\ \E name \in DirNames \cup {NameA} :
           Command("cd", Cd(raw, path, local, name), FALSE)

DoDump ==
    /\ Ready
    /\ \E name \in FileNames :
           Command("dump", Dump(raw, path, local, name), FALSE)

\* the flag values a session tries: one of the allow-list, one outside it
FlagValues == {ALT_FILE_1, 4660}

DoFlags ==
    /\ Ready
    /\ \E name \in {NameA, NameD}, v \in FlagValues :
           Command("flags", Flags(raw, path, local, name, v), TRUE)

\* what Ramdisk.commit writes: out_f.write(self._raw)
CommitBytesShort(r) == SubSeq(r, 1, Len(r) - 1)

CommitBytes(r) == r

\* Ramdisk.commit
DoCommit ==
    /\ Ready
    /\ outfile' = CommitBytes(raw)
    /\ last' = [op |-> "commit", res |-> "ok"]
    /\ nops' = nops + 1
    /\ UNCHANGED <<phase, infile, raw, sector_size, size, path, local, mutated>>

Next ==
    \/ Load
    \/ DoInject
    \/ DoRm
    \/ DoRmdir
    \/ DoCd
    \/ DoDump
    \/ DoFlags
    \/ DoCommit

Spec == Init /\ [][Next]_vars

----------------------------------------------------------------------------
(* Notions the properties are stated with. *)

Loaded == phase = "loaded"

\* the last command was an inject, rm or rmdir that returned True
AfterMutation ==
    Loaded /\ last.op \in {"inject", "rm", "rmdir"} /\ last.res = "ok"

\* the current directory
Cur == path[Len(path)]

\* the loop of _get_sector_list ends (it reaches a next-pointer of 0)
ChainEnds(r, in_entry) ==
    LET sectors == FollowChain(r, <<DestOffsetOf(in_entry)>>, MaxHops(r))
    IN  sectors[Len(sectors)] = 0

\* every file or dir record of the image: the root record, the records of the
\* root directory, and the records of each directory of the root directory
RootRecord(r) == Slice(r, BASE_OFFSET, BASE_OFFSET + ENTRY_SIZE)

RootEntries(r) == GetDirContents(r, RootRecord(r))

AllFileDirs(r) ==
    LET top == FileDirs(RootEntries(r))
    IN  {RootRecord(r)} \cup {top[k] : k \in 1..Len(top)}
        \cup UNION {{FileDirs(GetDirContents(r, top[k]))[m] :
                        m \in 1..Len(FileDirs(GetDirContents(r, top[k])))} :
                    k \in {j \in 1..Len(top) : Etype(top[j]) = "dir"}}

\* the walk from in_entry.dest_offset reaches a next-pointer of 0 after
\* following at most hops pointers
RECURSIVE EndsWithin(_, _, _)
EndsWithin(r, offset, hops) ==
    IF offset = 0 THEN TRUE
    ELSE IF hops = 0 THEN FALSE
    ELSE EndsWithin(r, FromLE(Slice(r, offset, offset + 4)), hops - 1)

\* bit i of the sector map stored in the image
MapBit(r, i) ==
    (r[SECTOR_MAP_START + (i \div 8) + 1] \div (2 ^ (i % 8))) % 2

\* the padding bits of the stored map, after the bit of the last sector
PaddingBits(r) ==
    {i \in NumHeaders(r)..(8 * CeilDiv(NumHeaders(r), 8) - 1) : TRUE}

----------------------------------------------------------------------------
(* Properties. *)

\* C1: loading an image and committing it with no inject, rm, rmdir or flags
\* in between writes a file byte-equal to the loaded file.
RoundTripIdentity ==
    (outfile # NoFile /\ ~mutated) => outfile = infile

RoundTripWitness ==
    /\ last.op = "commit"
    /\ ~mutated
    /\ Len(path) = 2
    /\ outfile = infile

\* C2: load raises exactly for the images whose first 8 bytes are not
\* "RD_v1.2\0" or whose 16-bit little-endian value at offset 22 is not 0x0016,
\* and accepts the others.
LoadRejectsMalformed ==
    phase # "init" =>
        (phase = "rejected" <=>
            \/ \E k \in 1..8 : infile[k] # MAGIC[k]
            \/ infile[23] + 256 * infile[24] # 22)

LoadRejectsWitness ==
    /\ phase = "rejected"
    /\ \A k \in 1..8 : infile[k] = MAGIC[k]
    /\ infile[23] + 256 * infile[24] # 22

ChainsTerminate ==
    Loaded =>
        \A E \in AllFileDirs(raw) :
            EndsWithin(raw, DestOffsetOf(E), size \div sector_size + 1)

\* a file of two sectors was injected into a directory that grew by a
\* sector: both chains end after two hops and not before
ChainsTerminateWitness ==
    /\ AfterMutation
    /\ last.op = "inject"
    /\ Len(GetSectorList(raw, Cur)) = 2
    /\ Name(Cur) = NameD
    /\ \E E \in AllFileDirs(raw) :
           /\ Etype(E) = "file"
           /\ Name(E) = NameB
           /\ EndsWithin(raw, DestOffsetOf(E), 2)
           /\ ~EndsWithin(raw, DestOffsetOf(E), 1)

\* C7: after every successful inject, rm or rmdir, the record D of the
\* current directory, on top of the path stack and as stored in the image at
\* D.fat_offset, has size = (links + dirs + files) * 105, contains = links +
\* dirs and max_size = chain_len * floor((sector_size - 4) / 119), counted on
\* the directory's chain as it is in the image after the operation.
AccountingHolds ==
    AfterMutation =>
        LET stored  == Slice(raw, FatOffsetOf(Cur), FatOffsetOf(Cur) + ENTRY_SIZE)
            entries == GetDirContents(raw, stored)
            links   == Len(OfType(entries, "link"))
            dirs    == Len(OfType(entries, "dir"))
            files   == Len(OfType(entries, "file"))
        IN  /\ stored = Cur
            /\ SizeOf(stored) = (links + dirs + files) * 105
            /\ Contains(stored) = links + dirs
            /\ MaxSizeOf(stored) =
                   Len(GetSectorList(raw, stored)) * ((sector_size - 4) \div 119)

\* an rm emptied the second sector of the directory d, which was dropped
\* from the chain: d holds its two links in one sector again
AccountingWitness ==
    /\ AfterMutation
    /\ last.op = "rm"
    /\ Name(Cur) = NameD
    /\ Len(GetSectorList(raw, Cur)) = 1
    /\ SizeOf(Cur) = 2 * 105
    /\ MaxSizeOf(Cur) = 2

\* the sectors of a chain, as indices
ChainIndices(r, E) ==
    {GetSectorList(r, E)[k] \div sector_size : k \in 1..Len(GetSectorList(r, E))}

\* C5: in every state reached from a well-formed image by successful inject,
\* rm and rmdir, every sector in the chain of every file or dir entry is
\* marked occupied by _list_free (so _alloc never returns it), a
\* single-sector file whose payload bytes are all zero included.
ChainsOccupied ==
    AfterMutation =>
        \A E \in AllFileDirs(raw) :
            \A i \in ChainIndices(raw, E) : ~ListFree(raw)[i + 1]

\* the slots k..(k + n - 1) of entries are of type etype, with names in
\* strictly ascending byte-wise order
AscendingRun(entries, k, n, etype) ==
    /\ \A j \in k..(k + n - 1) : Etype(entries[j]) = etype
    /\ \A j \in k..(k + n - 2) :
           StrLess(Name(entries[j]), Name(entries[j + 1]))

\* the bytes of the sectors of a directory chain that no slot covers
TailsZero(r, sectors) ==
    \A k \in 1..Len(sectors) :
        \A b \in (4 + EntriesPerSector * ENTRY_SIZE)..(sector_size - 1) :
            r[sectors[k] + b + 1] = 0

\* C6: after every successful inject, rm or rmdir, the slots of the current
\* directory, in chain order, are two links, then the dirs in strictly
\* ascending byte-wise name order, then the files in strictly ascending
\* byte-wise name order, and every byte after the last written entry of the
\* directory sectors is zero.
DirectoryOrdered ==
    AfterMutation =>
        LET entries == GetDirContents(raw, Cur)
            nd == Len(OfType(entries, "dir"))
            nf == Len(OfType(entries, "file"))
        IN  /\ Len(entries) >= 2 + nd + nf
            /\ Etype(entries[1]) = "link" /\ Etype(entries[2]) = "link"
            /\ AscendingRun(entries, 3, nd, "dir")
            /\ AscendingRun(entries, 3 + nd, nf, "file")
            /\ \A j \in (3 + nd + nf)..Len(entries) : entries[j] = EmptyEntry
            /\ TailsZero(raw, GetSectorList(raw, Cur))

\* the names C8 speaks of: valid, of a local file of length L >= 1
PlainNames == {NameA, NameB, NameZ}

\* C8: for a local file F of length L >= 1 and valid name, after a
\* successful inject(name), dump(name) in the same directory writes exactly
\* the L bytes of F, whatever successful injects and removals of other names
\* happen in between.  Only dump writes local files, and only for a name it
\* finds in the current directory, so each of them keeps the bytes of F.
DumpReturnsInjected ==
    (Loaded /\ last.op = "dump" /\ last.res = "ok") =>
        \A n \in PlainNames : local[n] = LocalFiles(sector_size)[n]

\* the current directory is in the form _optimize produces
Canonical(r, p) == Optimize(r, p).ok /\ Optimize(r, p).raw = r

\* C9: from an image state S whose current directory is in the canonical
\* form of _optimize, a successful inject(F) immediately followed by rm(F)
\* yields an image byte-equal to S.
InjectRmRestores ==
    Loaded =>
        \A n \in FileNames :
            LET injected == Inject(raw, path, local, n)
                removed  == Rm(injected.raw, injected.path, injected.local, n)
            IN  (Canonical(raw, path) /\ injected.res = "ok") =>
                    (removed.res = "ok" /\ removed.raw = raw)

\* C10: a call of inject that does not return success (it returns failure
\* or raises) leaves the image buffer byte-equal to its state before the
\* call.
InjectAllOrNothing ==
    [][(last'.op = "inject" /\ last'.res # "ok") => raw' = raw]_vars

\* the number of True in a list of _list_free
CountTrue(free_sectors) ==
    Cardinality({k \in 1..Len(free_sectors) : free_sectors[k]})

\* the number of sectors _list_free marks free
FreeCount(r) == CountTrue(ListFree(r))

\* the command returned False and left image and path stack as they were
Refused(out) == out.res = "fail" /\ out.raw = raw /\ out.path = path

\* the number of sectors an inject of in_bin into directory cur needs
Needs(cur, in_bin) ==
    CeilDiv(Len(in_bin), sector_size - 4)
        + (IF SizeOf(cur) \div 105 = MaxSizeOf(cur) THEN 1 ELSE 0)

\* C11: in every state in which the session takes a command, when fewer
\* sectors are free than inject needs (ceil(L / (sector_size - 4)), plus one
\* if the current directory is full), inject returns failure and no byte of
\* the image and no element of the path stack changes.
CapacityError ==
    Ready =>
        \A n \in FileNames :
            (local[n] # NoFile /\ FreeCount(raw) < Needs(Cur, local[n])) =>
                Refused(Inject(raw, path, local, n))

\* an inject of the two-sector file b has just failed: the directory is full
\* and holds no b, three sectors are needed and two are free
CapacityErrorWitness ==
    /\ Ready
    /\ last.op = "inject" /\ last.res = "fail"
    /\ ~EntryExists(raw, Cur, NameB)
    /\ Needs(Cur, local[NameB]) = 3
    /\ FreeCount(raw) = 2
    /\ Inject(raw, path, local, NameB).res = "fail"

\* entries holds an entry of a type in etypes whose name is in_name
NamedAmong(entries, in_name, etypes) ==
    \E k \in 1..Len(entries) :
        Etype(entries[k]) \in etypes /\ Name(entries[k]) = in_name

\* the directory cur holds a link, dir or file entry whose name is in_name
HoldsNamed(r, cur, in_name) ==
    NamedAmong(GetDirContents(r, cur), in_name, {"link", "dir", "file"})

\* C12: whenever the current directory holds an entry of any kind (link, dir
\* or file) named name, the link names "." and ".." included,
\* _entry_exists(name) is true and inject(name) fails without writing.
DuplicateCheck ==
    Loaded =>
        \A n \in FileNames \cup DirNames :
            HoldsNamed(raw, Cur, n) =>
                /\ EntryExists(raw, Cur, n)
                /\ Inject(raw, path, local, n).res = "fail"
                /\ Inject(raw, path, local, n).raw = raw

\* the names of local files that hold a byte <= 0x1f, 0x2f, 0x7f or 0xff
InvalidNames == {n \in FileNames : \E i \in 1..Len(n) : IsInvalidChar(n[i])}

\* C13: inject of a name that holds a byte <= 0x1f, 0x2f ('/'), 0x7f or 0xff
\* refuses: no entry is created and the image is byte-equal to its state
\* before the call.
InvalidNameRefused ==
    Loaded =>
        \A n \in InvalidNames :
            /\ Inject(raw, path, local, n).res # "ok"
            /\ Inject(raw, path, local, n).raw = raw

\* every byte of the sector at offset in_sector is zero
SectorZero(r, in_sector) ==
    \A b \in 1..sector_size : r[in_sector + b] = 0

\* C14: rmdir(name) on a directory whose chain holds at least one file or
\* dir entry (links not counted) returns failure and leaves the image
\* byte-equal; on a directory holding only its two links it succeeds, every
\* sector of the directory's chain is zero afterwards, its entry is gone
\* from the current directory, and the image is what _optimize makes of the
\* image with those sectors and the entry's slot zeroed.
RmdirRefusesNonEmpty ==
    Loaded =>
        \A n \in {NameD, NameA} :
            LET entry == GetEntry(raw, Cur, n, "dir")
                out   == Rmdir(raw, path, local, n)
            IN  entry # NoEntry =>
                    IF FileDirs(GetDirContents(raw, entry)) # <<>>
                    THEN out.res = "fail" /\ out.raw = raw
                    ELSE /\ out.res = "ok"
                         /\ \A k \in 1..Len(GetSectorList(raw, entry)) :
                                SectorZero(out.raw, GetSectorList(raw, entry)[k])
                         /\ ~HoldsNamed(out.raw, out.path[Len(out.path)], n)
                         /\ Len(FileDirs(GetDirContents(out.raw,
                                                        out.path[Len(out.path)])))
                                = Len(FileDirs(GetDirContents(raw, Cur))) - 1
                         /\ out.raw =
                                Optimize(SetSlice(ZeroSectors(raw,
                                                      GetSectorList(raw, entry)),
                                                  FatOffsetOf(entry),
                                                  FatOffsetOf(entry) + ENTRY_SIZE,
                                                  Zeros(ENTRY_SIZE)),
                                         path).raw

\* the root directory is current and its directory d holds a file: rmdir of
\* d is refused
RmdirRefusesWitness ==
    /\ Loaded
    /\ Len(path) = 1
    /\ GetEntry(raw, Cur, NameD, "dir") # NoEntry
    /\ Len(FileDirs(GetDirContents(raw, GetEntry(raw, Cur, NameD, "dir")))) = 1
    /\ Rmdir(raw, path, local, NameD).res = "fail"
    /\ Rmdir(raw, path, local, NameD).raw = raw

\* flag values tried on a file: the allow-list, a value outside it, 0
TriedFlags == VALID_FLAGS \cup {4660, 0}

\* the offsets at which two images of the same length differ
Differ(r1, r2) == {k \in 0..(Len(r1) - 1) : r1[k + 1] # r2[k + 1]}

\* C15: in every state in which the session takes a command, flags(name, v)
\* on an existing file succeeds exactly when v is one of
\* 0x81fd, 0x81a4, 0x81b4, 0x41fd; on success the only image bytes that
\* change are the 2 flags bytes at offset 50 of that entry's record, which
\* hold v, and on failure the image is byte-equal to before.
FlagsAllowList ==
    Ready =>
        \A n \in FileNames, v \in TriedFlags :
            LET entry == GetEntry(raw, Cur, n, "file")
                out   == Flags(raw, path, local, n, v)
            IN  entry # NoEntry =>
                    /\ out.res = "ok" <=> v \in {33277, 33188, 33204, 16893}
                    /\ Len(out.raw) = Len(raw)
                    /\ out.res = "ok" =>
                           /\ Differ(raw, out.raw) \subseteq
                                  {FatOffsetOf(entry) + 50, FatOffsetOf(entry) + 51}
                           /\ out.raw[FatOffsetOf(entry) + 51]
                                + 256 * out.raw[FatOffsetOf(entry) + 52] = v
                           /\ Slice(raw, FatOffsetOf(entry),
                                    FatOffsetOf(entry) + ENTRY_SIZE) = entry
                    /\ out.res # "ok" => out.raw = raw

\* flags has just set 0x81a4 on the file a, whose record held 0x81fd before
FlagsAllowListWitness ==
    /\ Ready
    /\ last.op = "flags" /\ last.res = "ok"
    /\ GetEntry(raw, Cur, NameA, "file") # NoEntry
    /\ FlagsOf(GetEntry(raw, Cur, NameA, "file")) = 33188
    /\ Flags(raw, path, local, NameA, 4660).res = "fail"

\* C16: flags(name, v) with v in the allow-list succeeds and sets the flags
\* field when name is a directory entry of the current directory, as it does
\* for a file entry.
FlagsOnDirectories ==
    Loaded =>
        \A n \in {NameD}, v \in VALID_FLAGS :
            LET entry == GetEntry(raw, Cur, n, "dir")
                out   == Flags(raw, path, local, n, v)
            IN  entry # NoEntry =>
                    /\ out.res = "ok"
                    /\ FlagsOf(Slice(out.raw, FatOffsetOf(entry),
                                     FatOffsetOf(entry) + ENTRY_SIZE)) = v

\* the directory cur, as read, holds an entry of type in_type named in_name
HoldsTyped(r, cur, in_name, in_type) ==
    NamedAmong(GetDirContents(r, cur), in_name, {in_type})

\* the names cd treats itself, without a look at the directory
CdSpecialNames == {NameRoot, NameDot, NameDotDot}

\* rm, dump and rmdir of a name the current directory does not hold with
\* the type the command looks for
OthersRefuseNotFound ==
    /\ \A n \in FileNames \cup {NameD} :
           ~HoldsTyped(raw, Cur, n, "file") =>
               /\ Refused(Rm(raw, path, local, n))
               /\ Refused(Dump(raw, path, local, n))
               /\ Dump(raw, path, local, n).local = local
    /\ \A n \in DirNames \cup {NameA} :
           ~HoldsTyped(raw, Cur, n, "dir") =>
               Refused(Rmdir(raw, path, local, n))

\* C17 as stated, in every state in which the session takes a command: rm(name) and dump(name) when no file entry named name is
\* in the current directory, rmdir(name) and cd(name) when no dir entry
\* named name is in the current directory, each return failure and leave
\* the image buffer and the path stack unchanged.
NotFoundRefusedAlways ==
    Ready =>
        /\ OthersRefuseNotFound
        /\ \A n \in DirNames \cup {NameA} :
               ~HoldsTyped(raw, Cur, n, "dir") =>
                   Refused(Cd(raw, path, local, n))

\* C17 amended, in every state in which the session takes a command: as
\* stated, for cd only with a name other than "/", "."
\* and "..": those three succeed without a dir entry of that name, "/" and
\* ".." moving the path stack; the image is unchanged by every cd.
NotFoundRefused ==
    Ready =>
        /\ OthersRefuseNotFound
        /\ \A n \in (DirNames \cup {NameA}) \ CdSpecialNames :
               ~HoldsTyped(raw, Cur, n, "dir") =>
                   Refused(Cd(raw, path, local, n))
        /\ \A n \in CdSpecialNames :
               /\ ~HoldsTyped(raw, Cur, n, "dir")
               /\ Cd(raw, path, local, n).res = "ok"
               /\ Cd(raw, path, local, n).raw = raw

\* a refused rm has just been made, the current directory holds the file a
\* and the directory d, and rm d, dump d, cd a, rmdir a are refused
NotFoundWitness ==
    /\ Ready
    /\ last.op = "rm"
    /\ last.res = "fail"
    /\ Len(path) = 1
    /\ HoldsTyped(raw, Cur, NameD, "dir")
    /\ HoldsTyped(raw, Cur, NameA, "file")
    /\ Refused(Rm(raw, path, local, NameD))
    /\ Refused(Dump(raw, path, local, NameD))
    /\ Refused(Cd(raw, path, local, NameA))
    /\ Refused(Rmdir(raw, path, local, NameA))

\* the current directory of an outcome
CurOf(out) == out.path[Len(out.path)]

\* inject of the readable local file n, absent from the full current
\* directory, with enough free sectors, grew the directory by the first
\* allocated sector
GrewBy(n, out, allocated) ==
    /\ out.res = "ok"
    /\ GetSectorList(out.raw, CurOf(out))
           = Append(GetSectorList(raw, Cur), Head(allocated))
    /\ MaxSizeOf(CurOf(out)) = MaxSizeOf(Cur) + EntriesPerSector
    /\ \E k \in 1..Len(SectorEntries(out.raw, Head(allocated))) :
           Etype(SectorEntries(out.raw, Head(allocated))[k]) = "file"
    /\ Len(FileDirs(GetDirContents(out.raw, CurOf(out))))
           = Len(FileDirs(GetDirContents(raw, Cur))) + 1

\* C18: when inject is called while the current directory is exactly full
\* (size / 105 = max_size) and enough sectors are free, the first allocated
\* sector is linked as the new last sector of the directory chain, the
\* directory holds the new entry and the new sector holds an entry, the
\* directory's max_size has increased by floor((sector_size - 4) / 119) and
\* its chain is one sector longer.
DirectoryGrowth ==
    Loaded =>
        \A n \in FileNames :
            (/\ local[n] # NoFile
             /\ ~HoldsNamed(raw, Cur, n)
             /\ SizeOf(Cur) \div 105 = MaxSizeOf(Cur)
             /\ FreeCount(raw) >= Needs(Cur, local[n]))
                => GrewBy(n, Inject(raw, path, local, n),
                          Alloc(raw, Needs(Cur, local[n])))

\* the records the current directory holds: its two links, dirs and files
EntryCount(r, cur) == 2 + Len(FileDirs(GetDirContents(r, cur)))

\* removing one record leaves the last sector of the chain unneeded, and
\* that record was the only one that needed it
ShrinkCase(chain, count) ==
    /\ Len(chain) >= 2
    /\ EntriesPerSector * (Len(chain) - 1) >= count - 1
    /\ EntriesPerSector * (Len(chain) - 1) < count

\* the outcome out dropped the last sector of chain, the chain of the
\* current directory before the call
Shrunk(out, chain) ==
    /\ SectorZero(out.raw, chain[Len(chain)])
    /\ Slice(out.raw, chain[Len(chain) - 1], chain[Len(chain) - 1] + 4)
           = Zeros(4)
    /\ GetSectorList(out.raw, CurOf(out)) = DropLast(chain)
    /\ MaxSizeOf(CurOf(out)) = MaxSizeOf(Cur) - EntriesPerSector
    /\ MaxSizeOf(Slice(out.raw, FatOffsetOf(Cur),
                       FatOffsetOf(Cur) + ENTRY_SIZE))
           = MaxSizeOf(Cur) - EntriesPerSector
    /\ ListFree(out.raw)[chain[Len(chain)] \div sector_size + 1]
    /\ MapBit(out.raw, chain[Len(chain)] \div sector_size) = 0

\* a removal that succeeded dropped the last sector of chain
ShrunkIfDone(out, chain) == out.res = "ok" => Shrunk(out, chain)

TriedLengths ==
    {1, sector_size - 4, sector_size - 3,
     2 * (sector_size - 4), 2 * (sector_size - 4) + 1}

\* a local file of length len without a zero byte
Content(len) == [i \in 1..len |-> (i % 251) + 1]

\* the offsets of the sectors a list of _list_free marks free, ascending,
\* from index k
RECURSIVE FreeOffsetsFrom(_, _)
FreeOffsetsFrom(free_sectors, k) ==
    IF k > Len(free_sectors) THEN <<>>
    ELSE (IF free_sectors[k] THEN <<(k - 1) * sector_size>> ELSE <<>>)
             \o FreeOffsetsFrom(free_sectors, k + 1)

\* ceil(len / (sector_size - 4)): k for k*(sector_size - 4), k + 1 for
\* k*(sector_size - 4) + 1
ExpectedSectors(len) == (len + sector_size - 5) \div (sector_size - 4)

\* sectors is the chain, stored in image r, of a file of length len
StoredChain(r, sectors, len) ==
    /\ Len(sectors) = ExpectedSectors(len)
    /\ \A i \in 1..(Len(sectors) - 1) :
           FromLE(Slice(r, sectors[i], sectors[i] + 4)) = sectors[i + 1]
    /\ Slice(r, sectors[Len(sectors)], sectors[Len(sectors)] + 4) = Zeros(4)
    /\ \A b \in (4 + len - (Len(sectors) - 1) * (sector_size - 4))
                    ..(sector_size - 1) :
           r[sectors[Len(sectors)] + b + 1] = 0

\* sectors, the chain of the new entry in image r, is made of the first free
\* sectors of the image before the call, after the one that goes to a full
\* directory, and is stored as StoredChain says
ChainAllocated(r, sectors, len, grown, free_offsets) ==
    /\ sectors = SubSeq(free_offsets, grown + 1, grown + ExpectedSectors(len))
    /\ StoredChain(r, sectors, len)

\* entry is the record of len bytes an inject left in image r
ChainOfEntry(r, entry, len, grown, free_offsets) ==
    /\ entry # NoEntry
    /\ SizeOf(entry) = len
    /\ ChainAllocated(r, GetSectorList(r, entry), len, grown, free_offsets)

\* a successful outcome out of the inject of name n with len bytes
ChainOf(out, n, len, grown, free_offsets) ==
    out.res = "ok" =>
        ChainOfEntry(out.raw, GetEntry(out.raw, CurOf(out), n, "file"), len,
                     grown, free_offsets)

\* ChainOf for each of the lengths tried
ChainsOf(n, grown, free_offsets) ==
    \A len \in TriedLengths :
        ChainOf(Inject(raw, path, [local EXCEPT ![n] = Content(len)], n),
                n, len, grown, free_offsets)

\* C20: in every state in which the session takes a command, after a
\* successful inject of a file of length L >= 1, the new file's
\* chain has exactly ceil(L / (sector_size - 4)) sectors, each non-last
\* sector's next-pointer is the offset of the following allocated sector,
\* the last sector's next-pointer is 0, and every payload byte of the last
\* sector after the file's final byte is zero.
FileChainLength ==
    Ready =>
        \A n \in PlainNames :
            ChainsOf(n, IF SizeOf(Cur) \div 105 = MaxSizeOf(Cur) THEN 1 ELSE 0,
                     FreeOffsetsFrom(ListFree(raw), 1))

\* b, of sector_size - 3 bytes, has just been injected: its chain has two
\* sectors and the second holds one byte of it; in this state the inject of
\* z with sector_size - 4 bytes succeeds with a chain of one sector
FileChainWitness ==
    /\ Ready
    /\ last.op = "inject"
    /\ last.res = "ok"
    /\ GetEntry(raw, Cur, NameB, "file") # NoEntry
    /\ SizeOf(GetEntry(raw, Cur, NameB, "file")) = sector_size - 3
    /\ Len(GetSectorList(raw, GetEntry(raw, Cur, NameB, "file"))) = 2
    /\ StoredChain(raw, GetSectorList(raw, GetEntry(raw, Cur, NameB, "file")),
                   sector_size - 3)
    /\ Inject(raw, path, [local EXCEPT ![NameZ] = Content(sector_size - 4)],
              NameZ).res = "ok"
    /\ Len(GetSectorList(
               Inject(raw, path,
                      [local EXCEPT ![NameZ] = Content(sector_size - 4)],
                      NameZ).raw,
               GetEntry(Inject(raw, path,
                               [local EXCEPT ![NameZ] =
                                   Content(sector_size - 4)],
                               NameZ).raw,
                        Cur, NameZ, "file"))) = 1

\* entry, the record an inject left in image r, has max_size equal to the
\* payload capacity of its own chain
MaxSizeIsCapacity(r, entry) ==
    /\ entry # NoEntry
    /\ MaxSizeOf(entry) = Len(GetSectorList(r, entry)) * (sector_size - 4)

\* MaxSizeIsCapacity for a successful outcome out of the inject of name n
MaxSizeAfter(out, n) ==
    out.res = "ok" =>
        MaxSizeIsCapacity(out.raw, GetEntry(out.raw, CurOf(out), n, "file"))

\* C21: in every state in which the session takes a command, after a
\* successful inject the new file entry's max_size equals chain_len *
\* (sector_size - 4), chain_len being the number of sectors of that file's own
\* chain, also when the inject had to grow the directory by one sector.
FileMaxSize ==
    Ready =>
        \A n \in PlainNames : MaxSizeAfter(Inject(raw, path, local, n), n)

\* what _alloc(in_request) is to return, given the ascending offsets of the
\* free sectors
Allocation(free_offsets, in_request) ==
    IF in_request <= Len(free_offsets) THEN SubSeq(free_offsets, 1, in_request)
    ELSE <<>>

\* _alloc(n) returns Allocation for every request up to one more than is free
AllocatesLowest(r, free_offsets) ==
    \A n \in 0..(Len(free_offsets) + 1) :
        Alloc(r, n) = Allocation(free_offsets, n)

\* C22: _alloc(n), which reads the image and writes nothing, returns exactly
\* n distinct byte offsets, those of the n lowest-indexed free sectors in
\* ascending order, when at least n sectors are free, and the empty list
\* when fewer than n are free.
AllocLowestFree ==
    Loaded => AllocatesLowest(raw, FreeOffsetsFrom(ListFree(raw), 1))

\* sectors 4 and 6 are free and sector 5 is not: _alloc(2) returns their
\* offsets and _alloc(3) the empty list
AllocWitness ==
    /\ Loaded
    /\ last.op = "rm"
    /\ last.res = "ok"
    /\ FreeOffsetsFrom(ListFree(raw), 1) = <<4 * sector_size, 6 * sector_size>>
    /\ Alloc(raw, 1) = <<4 * sector_size>>
    /\ Alloc(raw, 2) = <<4 * sector_size, 6 * sector_size>>
    /\ Alloc(raw, 3) = <<>>

\* "/" followed by the names of p[2..k], each but the first after a "/"
RECURSIVE PathText(_, _)
PathText(p, k) ==
    IF k <= 1 THEN <<47>>
    ELSE IF k = 2 THEN <<47>> \o Name(p[2])
    ELSE PathText(p, k - 1) \o <<47>> \o Name(p[k])

\* the outcome out of cd(n), n a dir entry of the current directory: one
\* element, the stored record of n, is pushed
Pushed(out, n) ==
    /\ out.res = "ok"
    /\ Len(out.path) = Len(path) + 1
    /\ SubSeq(out.path, 1, Len(path)) = path
    /\ Etype(CurOf(out)) = "dir"
    /\ Name(CurOf(out)) = n
    /\ Slice(raw, FatOffsetOf(CurOf(out)), FatOffsetOf(CurOf(out)) + ENTRY_SIZE)
           = CurOf(out)

\* what cd("/"), cd(".") and cd("..") make of the path stack
SpecialCds ==
    /\ Cd(raw, path, local, NameRoot).res = "ok"
    /\ Cd(raw, path, local, NameRoot).path = <<RootRecord(raw)>>
    /\ Cd(raw, path, local, NameDot).res = "ok"
    /\ Cd(raw, path, local, NameDot).path = path
    /\ Cd(raw, path, local, NameDotDot).res = "ok"
    /\ Cd(raw, path, local, NameDotDot).path
           = IF Len(path) = 1 THEN path ELSE SubSeq(path, 1, Len(path) - 1)

\* C23: in every state of a loaded session the path stack is non-empty and
\* its first element is the root entry; cd("/") makes it [root], cd(".")
\* leaves it unchanged, cd("..") pops one element unless only the root
\* remains, cd(d) for a dir entry d of the current directory pushes exactly
\* one element, and pwd() is "/" followed by the names of path[1..] joined
\* by "/".
PathStack ==
    Loaded =>
        /\ Len(path) >= 1
        /\ path[1] = RootRecord(raw)
        /\ SpecialCds
        /\ \A n \in {NameD, NameA} :
               HoldsTyped(raw, Cur, n, "dir") =>
                   Pushed(Cd(raw, path, local, n), n)
        /\ Pwd(path) = PathText(path, Len(path))

\* cd has just entered d: the stack holds the root and d, pwd() is "/d",
\* cd("..") pops d and a further cd("..") leaves the root
PathStackWitness ==
    /\ Loaded
    /\ last.op = "cd"
    /\ last.res = "ok"
    /\ Len(path) = 2
    /\ Name(Cur) = NameD
    /\ Pwd(path) = <<47, 100>>
    /\ Cd(raw, path, local, NameDotDot).path = <<RootRecord(raw)>>
    /\ Cd(raw, <<RootRecord(raw)>>, local, NameDotDot).path = <<RootRecord(raw)>>
    /\ Pwd(<<RootRecord(raw)>>) = <<47>>

----------------------------------------------------------------------------
(* qnxddcli.main run with a script: the command loop. *)

\* the lines executed before the script ends or exits
MaxLines == 3

\* Ramdisk.ls: the rows printed for entries; an entry whose type tag is bad
\* ends the process with quit("Something went wrong.")
LsOver(r, p, f, entries) ==
    IF \E k \in 1..Len(entries) : Etype(entries[k]) = "bad"
    THEN Outcome("quit", r, p, f)
    ELSE Outcome("ok", r, p, f)

Ls(r, p, f) == LsOver(r, p, f, GetDirContents(r, p[Len(p)]))

\* Ramdisk.showfat: the record whose hex string is returned, NoEntry for None
Showfat(r, cur, in_entry) ==
    IF GetEntry(r, cur, in_entry, "link") # NoEntry
    THEN GetEntry(r, cur, in_entry, "link")
    ELSE IF GetEntry(r, cur, in_entry, "dir") # NoEntry
    THEN GetEntry(r, cur, in_entry, "dir")
    ELSE GetEntry(r, cur, in_entry, "file")

\* Ramdisk.info: size, sector size, free bytes and sector map as printed
Info(r) ==
    <<size, sector_size, FreeCount(r) * sector_size,
      Slice(r, SECTOR_MAP_START,
            SECTOR_MAP_START + (size \div (sector_size * 8)))>>

\* a script line after split("#")[0].split(" "): command[0] and command[1:]
Line(cmd, args) == [cmd |-> cmd, args |-> args]

\* The lines a script is made of: every command of the match statement, with
\* names that are present, absent and invalid, commands without their
\* argument, the empty line, an unknown word, and "exit" followed by a word.
Lines ==
    {Line(c, <<>>) : c \in {"ls", "pwd", "info", "listfree", "help", "welcome",
                            "commit", "", "dump", "bogus"}}
    \cup {Line("inject", <<n>>) : n \in {NameA, NameE, NameSlash}}
    \cup {Line("rm", <<n>>) : n \in {NameA, NameD}}
    \cup {Line("rmdir", <<n>>) : n \in {NameD}}
    \cup {Line("cd", <<n>>) : n \in {NameD, NameDotDot, NameA}}
    \cup {Line("dump", <<n>>) : n \in {NameA}}
    \cup {Line("flags", <<NameA, v>>) : v \in FlagValues}
    \cup {Line("flags", <<NameA>>)}
    \cup {Line("showfat", <<n>>) : n \in {NameA, NameDot, NameB}}
    \cup {Line("exit", <<NameA>>)}

\* a case of the match statement that prints and changes nothing
Printed(r, p, f) == Outcome("ok", r, p, f)

\* the else branch of "case showfat"
ShowfatCase(r, p, f, entry) ==
    IF entry # NoEntry THEN Outcome("ok", r, p, f) ELSE Outcome("fail", r, p, f)

\* "case _" of the match statement
OtherCase(r, p, f, line) ==
    IF line.cmd = "" /\ line.args = <<>> THEN Outcome("ok", r, p, f)
    ELSE Outcome("fail", r, p, f)

\* the cases of the match statement that take command[1]
RunWithArgument(r, p, f, line) ==
    CASE line.cmd = "dump" -> Dump(r, p, f, line.args[1])
      [] line.cmd = "cd" -> Cd(r, p, f, line.args[1])
      [] line.cmd = "rm" -> Rm(r, p, f, line.args[1])
      [] line.cmd = "rmdir" -> Rmdir(r, p, f, line.args[1])
      [] line.cmd = "inject" -> Inject(r, p, f, line.args[1])
      [] line.cmd = "showfat" ->
             ShowfatCase(r, p, f, Showfat(r, p[Len(p)], line.args[1]))

\* a dump that also rewrites the flags of the entry it has read
RunLineDumpTouches(r, p, f, line) ==
    IF line.cmd \in {"dump", "cd", "rm", "rmdir", "inject", "showfat"}
    THEN (IF line.args = <<>> THEN Printed(r, p, f)
          ELSE IF line.cmd = "dump" /\ Dump(r, p, f, line.args[1]).res = "ok"
          THEN Outcome("ok",
                       Flags(r, p, f, line.args[1], ALT_FILE_1).raw, p,
                       Dump(r, p, f, line.args[1]).local)
          ELSE RunWithArgument(r, p, f, line))
    ELSE IF line.cmd = "flags"
    THEN (IF Len(line.args) < 2 THEN Printed(r, p, f)
          ELSE Flags(r, p, f, line.args[1], line.args[2]))
    ELSE IF line.cmd = "ls" THEN Ls(r, p, f)
    ELSE IF line.cmd \in {"info", "commit", "pwd", "listfree", "welcome", "help"}
    THEN Printed(r, p, f)
    ELSE OtherCase(r, p, f, line)

\* a failing showfat that is not a fault
RunLineShowfatLenient(r, p, f, line) ==
    IF line.cmd \in {"dump", "cd", "rm", "rmdir", "inject", "showfat"}
    THEN (IF line.args = <<>> \/ line.cmd = "showfat" THEN Printed(r, p, f)
          ELSE RunWithArgument(r, p, f, line))
    ELSE IF line.cmd = "flags"
    THEN (IF Len(line.args) < 2 THEN Printed(r, p, f)
          ELSE Flags(r, p, f, line.args[1], line.args[2]))
    ELSE IF line.cmd = "ls" THEN Ls(r, p, f)
    ELSE IF line.cmd \in {"info", "commit", "pwd", "listfree", "welcome", "help"}
    THEN Printed(r, p, f)
    ELSE OtherCase(r, p, f, line)

\* The match statement on one line: "fail" is a command that set
\* script_fault, "raise" an exception main does not catch, "quit" the quit of
\* ls; a command without its argument prints its usage.
RunLine(r, p, f, line) ==
    IF line.cmd \in {"dump", "cd", "rm", "rmdir", "inject", "showfat"}
    THEN (IF line.args = <<>> THEN Printed(r, p, f)
          ELSE RunWithArgument(r, p, f, line))
    ELSE IF line.cmd = "flags"
    THEN (IF Len(line.args) < 2 THEN Printed(r, p, f)
          ELSE Flags(r, p, f, line.args[1], line.args[2]))
    ELSE IF line.cmd = "ls" THEN Ls(r, p, f)
    ELSE IF line.cmd \in {"info", "commit", "pwd", "listfree", "welcome", "help"}
    THEN Printed(r, p, f)
    ELSE OtherCase(r, p, f, line)

\* what the line prints of the image: the value of pwd, listfree, info and
\* showfat, the entries ls lists
Shown(r, p, line) ==
    CASE line.cmd = "pwd" -> Pwd(p)
      [] line.cmd = "listfree" -> ListFreeIndices(r)
      [] line.cmd = "info" -> Info(r)
      [] line.cmd = "ls" -> GetDirContents(r, p[Len(p)])
      [] line.cmd = "showfat" /\ line.args # <<>> ->
             Showfat(r, p[Len(p)], line.args[1])
      [] OTHER -> <<>>

\* how the process goes on after a line: quit(message) leaves with exit
\* status 1, as does an exception nobody catches
PhaseAfter(res) ==
    CASE res = "ok" -> "loaded"
      [] res \in {"fail", "quit"} -> "aborted"
      [] res = "raise" -> "crashed"

\* one turn of the while loop on a line other than "exit"
ScriptCommand(line, out, shown) ==
    /\ raw' = out.raw
    /\ path' = out.path
    /\ local' = out.local
    /\ last' = [op |-> line.cmd, res |-> out.res, args |-> line.args,
                shown |-> shown]
    /\ phase' = PhaseAfter(out.res)
    /\ outfile' = IF line.cmd = "commit" THEN CommitBytes(raw) ELSE outfile
    /\ mutated' = (mutated \/ line.cmd \in {"inject", "rm", "rmdir", "flags"})
    /\ nops' = nops + 1
    /\ UNCHANGED <<infile, sector_size, size>>

ScriptLine ==
    /\ phase = "loaded"
    /\ nops < MaxLines
    /\ \E line \in Lines :
           ScriptCommand(line, RunLine(raw, path, local, line),
                         Shown(raw, path, line))

\* the line "exit": "Errors were avoided." and quit(0)
ScriptExit ==
    /\ phase = "loaded"
    /\ phase' = "exited"
    /\ last' = [op |-> "exit", res |-> "ok", args |-> <<>>, shown |-> <<>>]
    /\ UNCHANGED <<infile, raw, sector_size, size, path, local, outfile,
                   mutated, nops>>

\* the script has no further line: next(script) raises StopIteration
ScriptEnd ==
    /\ phase = "loaded"
    /\ phase' = "crashed"
    /\ last' = [op |-> "next", res |-> "raise", args |-> <<>>, shown |-> <<>>]
    /\ UNCHANGED <<infile, raw, sector_size, size, path, local, outfile,
                   mutated, nops>>

ScriptNext ==
    \/ Load
    \/ ScriptLine
    \/ ScriptExit
    \/ ScriptEnd

ScriptSpec == Init /\ [][ScriptNext]_vars

----------------------------------------------------------------------------
(* Properties of the command loop. *)

\* the lines of the read-only commands, with and without an argument, the
\* argument ranging over every name of the model
ReadOnlyLines ==
    {Line(c, <<>>) : c \in {"ls", "pwd", "info", "listfree", "dump", "cd",
                            "showfat"}}
    \cup {Line(c, <<n>>) : c \in {"dump", "cd", "showfat"},
                           n \in FileNames \cup DirNames}

\* C24: in every state of a script session, none of ls, pwd, info, dump,
\* showfat, listfree and cd, with any argument or none and whether it
\* succeeds or fails, changes a byte of the image buffer.
ReadOnlyCommands ==
    phase = "loaded" =>
        \A line \in ReadOnlyLines : RunLine(raw, path, local, line).raw = raw

\* a dump of the injected file a has just succeeded: the local copy is
\* written, the image still holds a, and from here showfat finds a, pwd
\* prints "/", cd d changes the path and dump b fails
ReadOnlyWitness ==
    /\ phase = "loaded"
    /\ last.op = "dump"
    /\ last.res = "ok"
    /\ mutated
    /\ local[NameA] = <<65>>
    /\ HoldsTyped(raw, Cur, NameA, "file")
    /\ Showfat(raw, Cur, NameA) # NoEntry
    /\ Shown(raw, path, Line("pwd", <<>>)) = <<47>>
    /\ RunLine(raw, path, local, Line("cd", <<NameD>>)).path # path
    /\ RunLine(raw, path, local, Line("dump", <<NameB>>)).res = "fail"

\* the words the match statement knows
CommandWords ==
    {"ls", "dump", "cd", "info", "rm", "rmdir", "inject", "flags", "commit",
     "pwd", "showfat", "listfree", "welcome", "help"}

\* the command of the line reports failure in the current state
ReportsFailure(line) ==
    \/ /\ line.cmd = "dump" /\ line.args # <<>>
       /\ Dump(raw, path, local, line.args[1]).res = "fail"
    \/ /\ line.cmd = "cd" /\ line.args # <<>>
       /\ Cd(raw, path, local, line.args[1]).res = "fail"
    \/ /\ line.cmd = "rm" /\ line.args # <<>>
       /\ Rm(raw, path, local, line.args[1]).res = "fail"
    \/ /\ line.cmd = "rmdir" /\ line.args # <<>>
       /\ Rmdir(raw, path, local, line.args[1]).res = "fail"
    \/ /\ line.cmd = "inject" /\ line.args # <<>>
       /\ Inject(raw, path, local, line.args[1]).res = "fail"
    \/ /\ line.cmd = "flags" /\ Len(line.args) >= 2
       /\ Flags(raw, path, local, line.args[1], line.args[2]).res = "fail"
    \/ /\ line.cmd = "showfat" /\ line.args # <<>>
       /\ Showfat(raw, Cur, line.args[1]) = NoEntry
    \/ /\ line.cmd \notin CommandWords
       /\ ~(line.cmd = "" /\ line.args = <<>>)

\* the step executes a line of the script
ExecutesLine == phase = "loaded" /\ nops' = nops + 1

\* C26: in script mode, the turn of the loop in which a command reports
\* failure (dump, cd, rm, rmdir, inject, flags or showfat failing, or an
\* unknown command) ends the session with a non-zero exit status, writing no
\* file, and no step is taken once the session has ended so: no later line,
\* in particular no later commit, is executed.
ScriptAbort ==
    [][/\ phase # "aborted"
       /\ (ExecutesLine /\ ReportsFailure(Line(last'.op, last'.args))) =>
              (phase' = "aborted" /\ outfile' = outfile)]_vars

\* the script committed, injected a and then issued a failing command: the
\* session is aborted and the file written is the image before the inject
ScriptAbortWitness ==
    /\ phase = "aborted"
    /\ last.res = "fail"
    /\ last.op \in {"rm", "showfat", "bogus"}
    /\ nops = 3
    /\ outfile = infile
    /\ raw # outfile
    /\ HoldsTyped(raw, Cur, NameA, "file")

----------------------------------------------------------------------------
(* Properties of the Entry setters. *)

\* values and names handed to the setters
SetterValues == {0, 1, 2, 258, 70000}
SetterNames == {<<>>, NameA, NameSlash, NameLong}
EtypeNames == {"empty", "link", "file", "dir"}

\* The records the setters are tried on: every slot of the current directory,
\* the records of the path stack, a fresh Entry(), a fresh entry made a dir,
\* and each of these with byte 63 cleared.
StoredRecords ==
    {GetDirContents(raw, Cur)[k] : k \in 1..Len(GetDirContents(raw, Cur))}
    \cup {path[k] : k \in 1..Len(path)}
    \cup {EmptyEntry, SetEtype(EmptyEntry, "dir")}

TriedRecords == StoredRecords \cup {SetByte(e, 63, 0) : e \in StoredRecords}

\* no setter of a file/dir field changes e
FieldSettersIgnore(e) ==
    /\ \A n \in SetterNames : SetName(e, n) = e
    /\ \A v \in SetterValues :
           /\ SetMaxSize(e, v) = e
           /\ SetFatOffset(e, v) = e
           /\ SetSize(e, v) = e
           /\ SetFlags(e, v) = e
           /\ SetContains(e, v) = e
           /\ SetDestOffset(e, v) = e

\* the etype setter on e: only the tag of an empty entry is written
EtypeSetterOn(e) ==
    \A t \in EtypeNames :
        /\ Etype(e) # "empty" => SetEtype(e, t) = e
        /\ Etype(e) = "empty" =>
               /\ Slice(SetEtype(e, t), TYPE_OFFSET + 4, ENTRY_SIZE)
                      = Slice(e, TYPE_OFFSET + 4, ENTRY_SIZE)
               /\ Slice(SetEtype(e, t), TYPE_OFFSET, TYPE_OFFSET + 4)
                      = (IF t = "empty" THEN TYPE_EMPTY
                         ELSE IF t = "link" THEN TYPE_LINK ELSE TYPE_FILEDIR)

\* the contains setter on a file or dir e: where it writes the value it also
\* sets byte 63
ContainsSetterOn(e) ==
    \A v \in SetterValues :
        (Etype(e) = "dir" \/ (Etype(e) = "file" /\ v >= 1)) =>
            /\ Slice(SetContains(e, v), CONTAINS_OFFSET, CONTAINS_OFFSET + 4)
                   = ToLE(v, 4)
            /\ SetContains(e, v)[63 + 1] = 1

\* C25: on an entry whose kind is link or empty the setters of name,
\* max_size, fat_offset, size, flags, contains and dest_offset leave all 119
\* bytes unchanged; the etype setter changes the type tag only of an entry
\* that is empty and leaves a non-empty entry unchanged; a write of contains
\* on a file or dir also sets byte 63 to 1.
SettersByKind ==
    Loaded =>
        \A e \in TriedRecords :
            /\ Len(e) = ENTRY_SIZE
            /\ Etype(e) \in {"link", "empty"} => FieldSettersIgnore(e)
            /\ EtypeSetterOn(e)
            /\ Etype(e) \in {"file", "dir"} => ContainsSetterOn(e)

\* the records tried hold a link, a dir, a file and an empty entry; the
\* contains setter raises byte 63 of a record where it was 0, and the etype
\* setter makes a fresh entry a link
SettersWitness ==
    /\ Loaded
    /\ \A t \in EtypeNames : \E e \in StoredRecords : Etype(e) = t
    /\ \E e \in TriedRecords :
           /\ Etype(e) = "file"
           /\ e[63 + 1] = 0
           /\ SetContains(e, 1)[63 + 1] = 1
    /\ Etype(SetEtype(EmptyEntry, "link")) = "link"
    /\ SetName(SetEtype(EmptyEntry, "link"), NameA) = SetEtype(EmptyEntry, "link")
    /\ SetName(SetEtype(EmptyEntry, "dir"), NameA) # SetEtype(EmptyEntry, "dir")

----------------------------------------------------------------------------
(* qnxdd.xor_cipher. *)

XOR_KEY ==
    <<31, 67, 96, 109, 31, 71, 104, 107, 99, 100, 97, 113, 96, 109, 99,
      31, 98, 113, 100, 96, 115, 110, 113, 31, 110, 101, 31, 99, 100, 108,
      110, 99, 104, 114, 106, 31>>

SEGMENT_SIZE == 512

\* bit w (a power of two) of a ^ c
XorBit(a, c, w) == ((((a \div w) % 2) + ((c \div w) % 2)) % 2) * w

\* a ^ c on bytes
BitXor(a, c) ==
    XorBit(a, c, 1) + XorBit(a, c, 2) + XorBit(a, c, 4) + XorBit(a, c, 8)
    + XorBit(a, c, 16) + XorBit(a, c, 32) + XorBit(a, c, 64)
    + XorBit(a, c, 128)

\* The offset of the segment that holds index j: the while loop starts at 0
\* and adds segment_len, which is SEGMENT_SIZE for every segment but the last.
SegmentOffset(j) == (j \div SEGMENT_SIZE) * SEGMENT_SIZE

\* byte ^ XOR_KEY[k], tabulated for the 36 key bytes; KeyXor[k + 1][byte]
KeyXor == [k \in 1..Len(XOR_KEY) |-> [a \in 0..255 |-> BitXor(a, XOR_KEY[k])]]

\* XorAt with a key that runs on from one segment into the next
XorAtRunningKey(in_data, offset, i) ==
    KeyXor[((offset + i) % Len(XOR_KEY)) + 1][in_data[offset + i + 1]]

\* out_data[offset + i] = in_data[offset + i] ^ XOR_KEY[i % xor_key_len]
XorAt(in_data, offset, i) ==
    KeyXor[(i % Len(XOR_KEY)) + 1][in_data[offset + i + 1]]

\* xor_cipher: out_data, every index of which is written in the turn of the
\* while loop for its segment
XorCipher(in_data) ==
    [j \in 1..Len(in_data) |->
        XorAt(in_data, SegmentOffset(j - 1), (j - 1) - SegmentOffset(j - 1))]
    \o <<>>

----------------------------------------------------------------------------
(* qnxdd.decomp_enigma.  d is in_data, cb is current_byte, t1 and t2 are
   table1 and table2, ti is table_index. *)

\* int.from_bytes(bs, "big")
RECURSIVE FromBE(_)
FromBE(bs) ==
    IF bs = <<>> THEN 0
    ELSE 256 * FromBE(SubSeq(bs, 1, Len(bs) - 1)) + bs[Len(bs)]

\* an index error: in_data[current_byte] past the end of the data, or a
\* table written at index 256 or above
EnigmaRaise == [res |-> "raise", bytes |-> <<>>]

\* the expansion of a token that never ends
Diverges == <<-1>>

RECURSIVE ReadTable(_, _, _, _, _)
RECURSIVE TableSkip(_, _, _, _, _)
RECURSIVE TableFirst(_, _, _, _, _, _)
RECURSIVE TableRun(_, _, _, _, _, _)
RECURSIVE TablePair(_, _, _, _, _, _)

\* "while table_index < 256": one token is read per turn
ReadTable(d, cb, t1, t2, ti) ==
    IF ti >= 256
    THEN [res |-> "ok", cb |-> cb, t1 |-> t1, t2 |-> t2, ti |-> ti]
    ELSE IF cb >= Len(d) THEN EnigmaRaise
    ELSE IF d[cb + 1] > 127
    THEN TableSkip(d, cb + 1, t1, t2, ti + d[cb + 1] - 127)
    ELSE TableFirst(d, cb + 1, t1, t2, ti, d[cb + 1])

\* the branch "token > 127", after "table_index += token"
TableSkip(d, cb, t1, t2, ti) ==
    IF ti >= 256 THEN ReadTable(d, cb, t1, t2, ti)
    ELSE IF cb >= Len(d) THEN EnigmaRaise
    ELSE IF d[cb + 1] = ti THEN ReadTable(d, cb + 1, t1, t2, ti + 1)
    ELSE IF cb + 1 >= Len(d) THEN EnigmaRaise
    ELSE ReadTable(d, cb + 2, [t1 EXCEPT ![ti] = d[cb + 1]],
                   [t2 EXCEPT ![ti] = d[cb + 2]], ti + 1)

\* the else branch: the pair of table_index, then the run of token pairs
TableFirst(d, cb, t1, t2, ti, token) ==
    IF cb + 1 >= Len(d) THEN EnigmaRaise
    ELSE TableRun(d, cb + 2, [t1 EXCEPT ![ti] = d[cb + 1]],
                  [t2 EXCEPT ![ti] = d[cb + 2]], ti, token)

\* "while token > 0", then "table_index += 1"
TableRun(d, cb, t1, t2, ti, token) ==
    IF token <= 0 THEN ReadTable(d, cb, t1, t2, ti + 1)
    ELSE IF cb >= Len(d) THEN EnigmaRaise
    ELSE IF d[cb + 1] = ti + 1
    THEN TablePair(d, cb + 1, t1, t2, ti + 2, token - 2)
    ELSE TablePair(d, cb, t1, t2, ti + 1, token - 1)

\* "table1[table_index] = test_byte" and "table2[table_index] =
\* in_data[current_byte]", test_byte being in_data[cb]
TablePair(d, cb, t1, t2, ti, token) ==
    IF cb + 1 >= Len(d) \/ ti >= 256 THEN EnigmaRaise
    ELSE TableRun(d, cb + 2, [t1 EXCEPT ![ti] = d[cb + 1]],
                  [t2 EXCEPT ![ti] = d[cb + 2]], ti, token)

\* out_a followed by out_b, unless one of them never ends
ExpandJoin(out_a, out_b) ==
    IF out_a = Diverges \/ out_b = Diverges THEN Diverges ELSE out_a \o out_b

\* The while loop on token_stack for one token: table2[token] is pushed
\* below table1[token], so table1[token] is expanded first.  on_stack holds
\* the tokens being expanded; meeting one of them again means that the stack
\* never empties.
RECURSIVE Expand(_, _, _, _)
Expand(token, t1, t2, on_stack) ==
    IF t1[token] = token THEN <<token>>
    ELSE IF token \in on_stack THEN Diverges
    ELSE ExpandJoin(Expand(t1[token], t1, t2, on_stack \cup {token}),
                    Expand(t2[token], t1, t2, on_stack \cup {token}))

\* "for token in comp_bin"
RECURSIVE ExpandAll(_, _, _)
ExpandAll(comp_bin, t1, t2) ==
    IF comp_bin = <<>> THEN <<>>
    ELSE ExpandJoin(Expand(Head(comp_bin), t1, t2, {}),
                    ExpandAll(Tail(comp_bin), t1, t2))

RECURSIVE EnigmaSegments(_, _, _)

\* a segment has been expanded to out_bin
EnigmaExpanded(d, cb, return_bytes, out_bin) ==
    IF out_bin = Diverges THEN [res |-> "loop", bytes |-> <<>>]
    ELSE EnigmaSegments(d, cb, return_bytes \o out_bin)

\* the tables of a segment have been read with outcome tb
EnigmaTabled(d, return_bytes, seg_size, tb) ==
    IF tb.res = "raise" THEN EnigmaRaise
    ELSE IF tb.ti # 256 THEN [res |-> "none", bytes |-> <<>>]
    ELSE EnigmaExpanded(d, tb.cb + seg_size, return_bytes,
                        ExpandAll(Slice(d, tb.cb, tb.cb + seg_size),
                                  tb.t1, tb.t2))

\* one turn of "while seg_size" once seg_size is read
EnigmaSegment(d, cb, return_bytes, seg_size) ==
    IF seg_size = 0 THEN [res |-> "ok", bytes |-> return_bytes]
    ELSE EnigmaTabled(d, return_bytes, seg_size,
                      ReadTable(d, cb, [b \in 0..255 |-> b],
                                [b \in 0..255 |-> 0], 0))

EnigmaSegments(d, cb, return_bytes) ==
    EnigmaSegment(d, cb + 2, return_bytes, FromBE(Slice(d, cb, cb + 2)))

\* decomp_enigma: "ok" with the decompressed bytes, "none" for the return of
\* None after "Invalid file.", "raise" for an IndexError, "loop" when the
\* expansion of a token does not end
DecompEnigma(in_data) == EnigmaSegments(in_data, 0, <<>>)

----------------------------------------------------------------------------
(* dexordd.py: unpack and pack of a demodisk image.  A working directory is
   a function from file names to contents, NoFile where there is no file. *)

QNX_DEMODISK_DATA_OFFSET == 3072
QNX_DATA_BOOTLOADER_OFFSET == 128
QNX_DATA_RAMDISK_OFFSET == 188416

QNX_STAGE_1_2_FILENAME == "boot_stage_1_and_2.bin"
QNX_DECIPHERED_DATA_FILENAME == "deciphered.bin"
QNX_STAGE_3_FILENAME == "boot_stage_3.bin"
QNX_BOOT_RAMDISK_FILENAME == "boot_fs.ramdisk"
QNX_PACK_FILENAME == "qnxdemo_repack.dat"

WorkFiles ==
    {QNX_STAGE_1_2_FILENAME, QNX_DECIPHERED_DATA_FILENAME,
     QNX_STAGE_3_FILENAME, QNX_BOOT_RAMDISK_FILENAME, QNX_PACK_FILENAME}

\* a working directory that was just created
EmptyDir == [n \in WorkFiles |-> NoFile]

\* the result of unpack or pack: how it ended and the directory it left
Done(res, dir) == [res |-> res, dir |-> dir]

\* unpack from the call of decomp_enigma on: an exception of decomp_enigma
\* is not caught, a decomp_enigma that does not return leaves unpack hanging,
\* and write(None) raises inside the try block, after open() has created the
\* file, and ends in quit()
UnpackStage3(dir, deciphered, decompressed) ==
    CASE decompressed.res = "raise" -> Done("raise", dir)
      [] decompressed.res = "loop" -> Done("loop", dir)
      [] decompressed.res = "none" ->
             Done("quit", [dir EXCEPT ![QNX_STAGE_3_FILENAME] = <<>>])
      [] decompressed.res = "ok" ->
             Done("ok",
                  [dir EXCEPT
                      ![QNX_STAGE_3_FILENAME] = decompressed.bytes,
                      ![QNX_BOOT_RAMDISK_FILENAME] =
                          Slice(deciphered, QNX_DATA_RAMDISK_OFFSET,
                                Len(deciphered))])

\* unpack once the data after the first two stages are deciphered
UnpackDeciphered(dir, deciphered) ==
    UnpackStage3([dir EXCEPT ![QNX_DECIPHERED_DATA_FILENAME] = deciphered],
                 deciphered,
                 DecompEnigma(Slice(deciphered, QNX_DATA_BOOTLOADER_OFFSET,
                                    Len(deciphered))))

\* unpack(demodisk_file, working_dir)
Unpack(demodisk_file, dir) ==
    UnpackDeciphered(
        [dir EXCEPT ![QNX_STAGE_1_2_FILENAME] =
            Slice(demodisk_file, 0, QNX_DEMODISK_DATA_OFFSET)],
        XorCipher(Slice(demodisk_file, QNX_DEMODISK_DATA_OFFSET,
                        Len(demodisk_file))))

\* Pack that does not cipher the data again
PackUnciphered(dir) ==
    IF \E n \in {QNX_STAGE_1_2_FILENAME, QNX_DECIPHERED_DATA_FILENAME,
                 QNX_BOOT_RAMDISK_FILENAME} : dir[n] = NoFile
    THEN Done("quit", dir)
    ELSE Done("ok",
              [dir EXCEPT ![QNX_PACK_FILENAME] =
                  dir[QNX_STAGE_1_2_FILENAME]
                  \o Slice(dir[QNX_DECIPHERED_DATA_FILENAME], 0,
                           QNX_DATA_RAMDISK_OFFSET)
                  \o dir[QNX_BOOT_RAMDISK_FILENAME]])

\* pack(working_dir): a file that cannot be read ends in quit()
Pack(dir) ==
    IF \E n \in {QNX_STAGE_1_2_FILENAME, QNX_DECIPHERED_DATA_FILENAME,
                 QNX_BOOT_RAMDISK_FILENAME} : dir[n] = NoFile
    THEN Done("quit", dir)
    ELSE Done("ok",
              [dir EXCEPT ![QNX_PACK_FILENAME] =
                  dir[QNX_STAGE_1_2_FILENAME]
                  \o XorCipher(Slice(dir[QNX_DECIPHERED_DATA_FILENAME], 0,
                                     QNX_DATA_RAMDISK_OFFSET)
                               \o dir[QNX_BOOT_RAMDISK_FILENAME])])

----------------------------------------------------------------------------
(* The demodisk images and the run of dexordd. *)

\* applications of xor_cipher to the buffer
MaxCiphers == 2

\* n bytes first, first + step, ... modulo 256
Ramp(n, first, step) == [j \in 1..n |-> (first + (j - 1) * step) % 256] \o <<>>

\* What stands at QNX_DATA_BOOTLOADER_OFFSET of the deciphered data: nothing,
\* no segment, one segment with the identity table, a segment with a pair in
\* the table, two segments, a table that overshoots index 256, a table that
\* breaks off, and a table in which tokens 0 and 1 expand to each other.
EnigmaStreams ==
    {<<>>, <<0, 0>>, <<0, 1, 255, 128, 254, 65>>,
     <<0, 2, 0, 65, 66, 255, 129, 253, 0, 67>>,
     <<0, 1, 255, 128, 254, 65, 0, 1, 255, 128, 254, 66>>,
     <<0, 1, 255, 128, 255>>, <<0, 1, 255>>,
     <<0, 1, 1, 1, 65, 0, 66, 255, 130, 252, 0>>}

\* an image: the first two stages, then the ciphered data
DiskImage(stages, data) == stages \o XorCipher(data)

\* images of a few bytes more than the first two stages and the offset of the
\* third
SmallImages ==
    {DiskImage(Ramp(QNX_DEMODISK_DATA_OFFSET, 1, 7),
               Ramp(QNX_DATA_BOOTLOADER_OFFSET, first, 3) \o stream \o rest) :
         first \in {0, 200}, stream \in EnigmaStreams,
         rest \in {<<>>, <<0, 0, 9, 8, 7>>}}

\* images that end before, at or just after the ciphered data begin, or
\* before the third stage
ShortImages ==
    {Ramp(n, 5, 11) : n \in {0, 1, 36, 511, 512, 513, 1025, 3071, 3072, 3073,
                             3172, 3200}}

\* an image with a ramdisk: the ramdisk image of the ramdisk sessions follows
\* QNX_DATA_RAMDISK_OFFSET bytes of deciphered data
FullImage ==
    DiskImage(Ramp(QNX_DEMODISK_DATA_OFFSET, 1, 7),
              Ramp(QNX_DATA_BOOTLOADER_OFFSET, 0, 3) \o <<0, 0>>
              \o Ramp(QNX_DATA_RAMDISK_OFFSET - QNX_DATA_BOOTLOADER_OFFSET - 2,
                      17, 5)
              \o GoodImage(256))

DiskImages == SmallImages \cup ShortImages \cup {FullImage}

DexorInit ==
    /\ phase = "disk"
    /\ infile \in DiskImages
    /\ raw = infile
    /\ sector_size = 0
    /\ size = 0
    /\ path = <<>>
    /\ local = EmptyDir
    /\ outfile = NoFile
    /\ last = NoCommand
    /\ mutated = FALSE
    /\ nops = 0

\* xor_cipher applied to the buffer
DoCipher ==
    /\ phase = "disk"
    /\ nops < MaxCiphers
    /\ raw' = XorCipher(raw)
    /\ nops' = nops + 1
    /\ last' = [op |-> "xor_cipher", res |-> "ok"]
    /\ UNCHANGED <<phase, infile, sector_size, size, path, local, outfile,
                   mutated>>

\* a run of dexordd in mode op with result done
Ran(op, done, phase_ok, phase_failed) ==
    \E out \in {done} :
    /\ phase' = IF out.res = "ok" THEN phase_ok ELSE phase_failed
    /\ local' = out.dir
    /\ last' = [op |-> op, res |-> out.res]
    /\ UNCHANGED <<infile, raw, sector_size, size, path, outfile, mutated,
                   nops>>

\* dexordd -m unpack
DoUnpack ==
    /\ phase = "disk"
    /\ Ran("unpack", Unpack(infile, local), "unpacked", "unpack_failed")

\* the ramdisk file of the working directory is replaced by another one
DoEdit ==
    /\ phase = "unpacked"
    /\ ~mutated
    /\ local' = [local EXCEPT ![QNX_BOOT_RAMDISK_FILENAME] = Append(@, 0)]
    /\ mutated' = TRUE
    /\ last' = [op |-> "edit", res |-> "ok"]
    /\ UNCHANGED <<phase, infile, raw, sector_size, size, path, outfile, nops>>

\* dexordd -m pack
DoPack ==
    /\ phase \in {"unpacked", "unpack_failed"}
    /\ Ran("pack", Pack(local), "packed", "pack_failed")

DexorNext ==
    \/ DoCipher
    \/ DoUnpack
    \/ DoEdit
    \/ DoPack

DexorSpec == DexorInit /\ [][DexorNext]_vars

----------------------------------------------------------------------------
(* Properties of dexordd. *)

\* c is b XORed byte by byte with the key, the key restarting every
\* SEGMENT_SIZE bytes
KeyedBytewise(b, c) ==
    /\ Len(c) = Len(b)
    /\ \A j \in 0..(Len(b) - 1) :
           c[j + 1] = BitXor(b[j + 1], XOR_KEY[((j % 512) % 36) + 1])

\* c, the ciphered b, is keyed bytewise and ciphers back to b
CipheredTwice(b, c) == KeyedBytewise(b, c) /\ XorCipher(c) = b

\* C27: for every buffer b, of any length, xor_cipher(xor_cipher(b)) = b,
\* the output has the length of b, and the byte at index j is XORed with key
\* byte (j mod 512) mod 36.
XorInvolution ==
    phase = "disk" => CipheredTwice(raw, XorCipher(raw))

\* xor_cipher was applied twice to an image of several segments whose length
\* is no multiple of 512: the buffer is the image again, and one more
\* application changes it
XorWitness ==
    /\ phase = "disk"
    /\ last.op = "xor_cipher"
    /\ nops = 2
    /\ Len(raw) > 2 * SEGMENT_SIZE
    /\ Len(raw) % SEGMENT_SIZE # 0
    /\ raw = infile
    /\ XorCipher(raw) # raw
    /\ BitXor(65, 31) = 94
    /\ BitXor(255, 106) = 149

\* the output pack writes for the working directory dir
Repacked(dir) ==
    dir[QNX_STAGE_1_2_FILENAME]
    \o XorCipher(Slice(dir[QNX_DECIPHERED_DATA_FILENAME], 0,
                       QNX_DATA_RAMDISK_OFFSET)
                 \o dir[QNX_BOOT_RAMDISK_FILENAME])

\* C28: when an image has been unpacked into a working directory and no file
\* of it has been modified, pack writes an output byte-equal to the image:
\* the first 0xc00 bytes copied, the rest re-ciphered from the first 0x2e000
\* deciphered bytes followed by the ramdisk.
RepackFidelity ==
    /\ (phase = "unpacked" /\ ~mutated) =>
           /\ local[QNX_STAGE_1_2_FILENAME]
                  = Slice(infile, 0, QNX_DEMODISK_DATA_OFFSET)
           /\ Pack(local).res = "ok"
           /\ Pack(local).dir[QNX_PACK_FILENAME] = infile
    /\ (phase = "packed" /\ ~mutated) =>
           /\ local[QNX_PACK_FILENAME] = infile
           /\ local[QNX_PACK_FILENAME] = Repacked(local)

\* an image whose third stage decompresses to "ABC" was unpacked and packed
\* again: the working directory holds the four files and the output equals
\* the image
RepackWitness ==
    /\ phase = "packed"
    /\ ~mutated
    /\ last.op = "pack"
    /\ last.res = "ok"
    /\ Len(infile) > QNX_DEMODISK_DATA_OFFSET + QNX_DATA_BOOTLOADER_OFFSET
    /\ local[QNX_STAGE_3_FILENAME] = <<65, 66, 67>>
    /\ local[QNX_BOOT_RAMDISK_FILENAME] = <<>>
    /\ local[QNX_DECIPHERED_DATA_FILENAME] # Slice(infile, QNX_DEMODISK_DATA_OFFSET, Len(infile))
    /\ local[QNX_PACK_FILENAME] = infile

----------------------------------------------------------------------------
(* Properties of inject and of the directory layout. *)

\* the outcome out of an inject of the local file n: success, and a file
\* entry n whose size is the length of the local file
InjectedAs(out, n) ==
    /\ out.res = "ok"
    /\ GetEntry(out.raw, CurOf(out), n, "file") # NoEntry
    /\ SizeOf(GetEntry(out.raw, CurOf(out), n, "file")) = Len(local[n])

\* the valid names of local files, the one of the empty file included
ValidNames == PlainNames \cup {NameE}

\* C29: in every state in which the session takes a command, for every local
\* file of length L >= 0 with a valid name not present in the current
\* directory, inject returns success if at least ceil(L / (sector_size - 4))
\* sectors are free (one more if the current directory is full); a
\* zero-length file becomes an entry of size 0.
InjectWhenPossible ==
    Ready =>
        \A n \in ValidNames :
            (/\ local[n] # NoFile
             /\ ~HoldsNamed(raw, Cur, n)
             /\ FreeCount(raw) >= Needs(Cur, local[n]))
                => InjectedAs(Inject(raw, path, local, n), n)

----------------------------------------------------------------------------
(* Sessions on images of several sector sizes. *)

\* the sector sizes of the images: a payload of exactly two records
\* (4 + 2 * 119), one byte more, and a power of two
SlotSectorSizes == {242, 243, 256}

SlotInit ==
    /\ phase = "init"
    /\ infile \in {GoodImage(ss) : ss \in SlotSectorSizes}
    /\ raw = <<>>
    /\ sector_size = 0
    /\ size = 0
    /\ path = <<>>
    /\ local = LocalFiles(HeaderSectorSize(infile))
    /\ outfile = NoFile
    /\ last = NoCommand
    /\ mutated = FALSE
    /\ nops = 0

SlotSpec == SlotInit /\ [][Next]_vars

\* the number of slots _get_dir_contents yields for one directory sector
YieldedPerSector(r, sector) == Len(SectorEntries(r, sector))

\* the number of entries the while loop of _optimize writes into one directory
\* sector when more entries are queued than a sector can hold
WrittenPerSector(r, sector) ==
    LET queue == [k \in 1..(EntriesPerSector + 2) |-> RootRecord(r)]
    IN  Len(queue) - Len(RewriteSector(r, queue, sector, 4).queue)

\* C30: in every loaded state, whatever sector size was read from the header,
\* for every sector of the current directory's chain the number of 119-byte
\* slots the directory iteration yields, the number of entries _optimize
\* writes, and the capacity floor((sector_size - 4) / 119) are equal.
SlotsPerSector ==
    Loaded =>
        \A k \in 1..Len(GetSectorList(raw, Cur)) :
            /\ YieldedPerSector(raw, GetSectorList(raw, Cur)[k]) = EntriesPerSector
            /\ WrittenPerSector(raw, GetSectorList(raw, Cur)[k]) = EntriesPerSector

----------------------------------------------------------------------------
(* Properties of the stored records and of _optimize. *)

\* the byte offset of slot m (from 1) of the directory sector at offset sector
SlotAt(sector, m) == sector + 4 + ENTRY_SIZE * (m - 1)

\* every file or dir record of the sector at offset sector stores the offset
\* of the slot it lies in
SectorSlotsStored(r, sector) ==
    \A m \in 1..Len(SectorEntries(r, sector)) :
        Etype(SectorEntries(r, sector)[m]) \in {"file", "dir"}
            => FatOffsetOf(SectorEntries(r, sector)[m]) = SlotAt(sector, m)

\* the same for every sector of the chain of the directory cur
SlotsStored(r, cur) ==
    \A k \in 1..Len(GetSectorList(r, cur)) :
        SectorSlotsStored(r, GetSectorList(r, cur)[k])

\* the record that Flags wrote for the file entry: it lies at the slot the
\* entry was read from and carries the flags v
FlagsHitsRecord(r, entry, out, v) ==
    entry # NoEntry =>
        /\ out.res = "ok"
        /\ Slice(out.raw, FatOffsetOf(entry), FatOffsetOf(entry) + ENTRY_SIZE)
               = SetFlags(entry, v)
        /\ Slice(out.raw, 0, FatOffsetOf(entry)) = Slice(r, 0, FatOffsetOf(entry))
        /\ Slice(out.raw, FatOffsetOf(entry) + ENTRY_SIZE, Len(out.raw))
               = Slice(r, FatOffsetOf(entry) + ENTRY_SIZE, Len(r))

\* C31: after every successful inject, rm or rmdir, every file and dir entry
\* of the current directory stores a fat_offset equal to the byte offset of
\* the slot at which its record lies, and a later flags on a file of the
\* directory rewrites exactly the record at that slot.
StoredSlotOffset ==
    AfterMutation =>
        /\ SlotsStored(raw, Cur)
        /\ \A n \in {NameA, NameB} :
               FlagsHitsRecord(raw, GetEntry(raw, Cur, n, "file"),
                               Flags(raw, path, local, n, ALT_FILE_1),
                               ALT_FILE_1)

\* an inject of b after an inject of a into the root: _optimize sorted d, a, b
\* over the directory's two sectors, and b lies in the second slot of the
\* second sector
StoredSlotWitness ==
    /\ AfterMutation
    /\ last.op = "inject"
    /\ Len(path) = 1
    /\ Len(GetSectorList(raw, Cur)) = 2
    /\ GetEntry(raw, Cur, NameB, "file") # NoEntry
    /\ FatOffsetOf(GetEntry(raw, Cur, NameB, "file"))
           = SlotAt(GetSectorList(raw, Cur)[2], 2)
    /\ FatOffsetOf(GetEntry(raw, Cur, NameA, "file"))
           = SlotAt(GetSectorList(raw, Cur)[2], 1)

\* _optimize run on what a first run once left gives once again
SameAgain(once, twice) ==
    once.ok =>
        /\ twice.ok
        /\ twice.raw = once.raw
        /\ twice.path = once.path

\* C32: in every state reached from the loaded image by inject, rm, rmdir,
\* flags and cd calls, calls that fail or raise included, running _optimize
\* on the current directory twice in succession gives the same image and
\* the same path-stack record as running it once.
OptimizeIdempotent ==
    Loaded =>
        SameAgain(Optimize(raw, path),
                  Optimize(Optimize(raw, path).raw, Optimize(raw, path).path))

\* what unpack hands to decomp_enigma for the demodisk file img:
\* deciphered[QNX_DATA_BOOTLOADER_OFFSET:]
EnigmaInput(img) ==
    Slice(XorCipher(Slice(img, QNX_DEMODISK_DATA_OFFSET, Len(img))),
          QNX_DATA_BOOTLOADER_OFFSET, Len(img))

\* C33: for every input stream decomp_enigma returns: the decoded bytes, or
\* nothing (with a diagnostic) when the table index is not exactly 256; no
\* expansion runs forever and no exception leaves the function.
EnigmaReturns ==
    last.op = "unpack" => DecompEnigma(EnigmaInput(infile)).res \in {"ok", "none"}

----------------------------------------------------------------------------
(* Properties of inject towards the other entries. *)

\* the file records of the image
FilesOf(r) == {E \in AllFileDirs(r) : Etype(E) = "file"}

\* the bytes dump returns for the file record E
ContentsOf(r, E) == DumpBytes(r, GetSectorList(r, E), SizeOf(E))

\* the sectors of the chain of E
SectorsOf(r, E) == {GetSectorList(r, E)[k] : k \in 1..Len(GetSectorList(r, E))}

\* the file F of image r is a file of image s, with the same name, chain
\* start and size, and dump returns the same bytes for it
FileKept(r, s, F) ==
    \E G \in FilesOf(s) :
        /\ Name(G) = Name(F)
        /\ DestOffsetOf(G) = DestOffsetOf(F)
        /\ SizeOf(G) = SizeOf(F)
        /\ ContentsOf(s, G) = ContentsOf(r, F)

\* no sector belongs to the chains of two records
ChainsDisjoint(r) ==
    \A E1, E2 \in AllFileDirs(r) :
        E1 # E2 => SectorsOf(r, E1) \cap SectorsOf(r, E2) = {}

\* the outcome out of an inject on image r kept the files of r
InjectKeeps(r, out) ==
    out.res = "ok" =>
        /\ \A F \in FilesOf(r) : FileKept(r, out.raw, F)
        /\ ChainsDisjoint(out.raw)

\* C34: in every state in which the session takes a command, a further
\* successful inject leaves the bytes dump returns for every file that
\* existed before unchanged, and afterwards no sector belongs to the chains
\* of two different entries.
InjectPreservesFiles ==
    Ready =>
        \A n \in {NameA, NameB, NameZ} :
            InjectKeeps(raw, Inject(raw, path, local, n))

----------------------------------------------------------------------------
(* Properties of the stored names. *)

\* the names of local files without a disallowed character, the name of
\* NAME_LENGTH + 1 characters included
AddressableNames == (FileNames \ InvalidNames) \ {NameE}

\* after the outcome out of inject(n), the name n finds the new file entry,
\* and dump(n) and rm(n) succeed
Retrievable(out, n) ==
    out.res = "ok" =>
        /\ GetEntry(out.raw, CurOf(out), n, "file") # NoEntry
        /\ Dump(out.raw, out.path, out.local, n).res = "ok"
        /\ Rm(out.raw, out.path, out.local, n).res = "ok"

\* C35: in every state in which the session takes a command, after
\* inject(name) returns success, for names of 48 or more characters as well,
\* _get_entry(name, "file") finds the new entry in the current directory, and
\* dump(name) and rm(name) with the same name succeed.
InjectedRetrievable ==
    Ready =>
        \A n \in AddressableNames :
            Retrievable(Inject(raw, path, local, n), n)

\* the directory records of the image: the root record and the dir records
\* of the root directory
DirsOf(r) == {E \in AllFileDirs(r) : Etype(E) = "dir"}

\* no two non-empty slots of the directory dir hold the same stored name
NamesDiffer(r, dir) ==
    \A i, j \in 1..Len(GetDirContents(r, dir)) :
        (/\ i # j
         /\ Etype(GetDirContents(r, dir)[i]) # "empty"
         /\ Etype(GetDirContents(r, dir)[j]) # "empty")
            => Name(GetDirContents(r, dir)[i]) # Name(GetDirContents(r, dir)[j])

\* C36: the loaded image holds no directory with two non-empty entries of the
\* same name, and after any sequence of inject, rm, rmdir and flags calls no
\* directory holds two non-empty entries with the same stored name.
UniqueNames ==
    Loaded => \A dir \in DirsOf(raw) : NamesDiffer(raw, dir)

----------------------------------------------------------------------------
(* Frame and length of the image. *)

\* the image with the sectors at the offsets sectors blanked
RECURSIVE Blanked(_, _)
Blanked(img, sectors) ==
    IF sectors = <<>> THEN img
    ELSE Blanked(SetSlice(img, Head(sectors), Head(sectors) + sector_size,
                          Zeros(sector_size)),
                 Tail(sectors))

\* the image with the record at offset fat_offset and the sector map, one bit
\* per sector, blanked
BlankedRecordAndMap(img, fat_offset) ==
    SetSlice(SetSlice(img, fat_offset, fat_offset + ENTRY_SIZE, Zeros(ENTRY_SIZE)),
             SECTOR_MAP_START, SECTOR_MAP_START + CeilDiv(NumHeaders(img), 8),
             Zeros(CeilDiv(NumHeaders(img), 8)))

\* what of the image img lies outside the frame: the sectors and the record
\* of the directory cur and the sector map blanked
OutsideFrame(img, cur, sectors) ==
    BlankedRecordAndMap(Blanked(img, sectors), FatOffsetOf(cur))

\* the chain of entry, none for no entry
EntrySectors(r, entry) == IF entry = NoEntry THEN <<>> ELSE GetSectorList(r, entry)

\* the sectors inject asks _alloc for, for the local file in_bin
InjectSectors(r, cur, in_bin) ==
    IF in_bin = NoFile THEN <<>> ELSE Alloc(r, SectorsNeeded(in_bin, GrowDir(cur)))

\* a successful outcome out on image r with current directory cur changed
\* only bytes of the chain of cur before or after, of the sectors given, of
\* the record of cur, and of the sector map
Framed(r, cur, out, sectors) ==
    out.res = "ok" =>
        /\ Len(out.raw) = Len(r)
        /\ OutsideFrame(out.raw, cur,
                        GetSectorList(r, cur)
                            \o GetSectorList(out.raw, CurOf(out)) \o sectors)
               = OutsideFrame(r, cur,
                              GetSectorList(r, cur)
                                  \o GetSectorList(out.raw, CurOf(out)) \o sectors)

\* C37: in every state in which the session takes a command, a successful
\* inject, rm or rmdir in the current directory D changes only bytes inside
\* the sectors of D's chain (a sector added to or dropped from it included),
\* the sectors allocated to the injected file or belonging to the removed
\* file or directory, D's own record at D.fat_offset, and the sector map at
\* offset 133; every other byte, the header fields at offsets 0 to 13 and the
\* records and sectors of the other directories included, is unchanged.
MutationFrame ==
    Ready =>
        /\ \A n \in FileNames :
               Framed(raw, Cur, Inject(raw, path, local, n),
                      InjectSectors(raw, Cur, local[n]))
        /\ \A n \in PlainNames :
               Framed(raw, Cur, Rm(raw, path, local, n),
                      EntrySectors(raw, GetEntry(raw, Cur, n, "file")))
        /\ Framed(raw, Cur, Rmdir(raw, path, local, NameD),
                  EntrySectors(raw, GetEntry(raw, Cur, NameD, "dir")))

\* the first command after cd d was a successful inject of a into d: d grew
\* by sector 4 and a lies in sector 5, the sector map and d's record in the
\* second sector of the root changed, and the header fields, the root's
\* record, its first sector and the rest of its second sector did not
MutationFrameWitness ==
    /\ AfterMutation
    /\ last.op = "inject"
    /\ nops = 2
    /\ Len(path) = 2
    /\ GetSectorList(raw, Cur) = <<3 * sector_size, 4 * sector_size>>
    /\ raw[SECTOR_MAP_START + 1] # infile[SECTOR_MAP_START + 1]
    /\ Slice(raw, FatOffsetOf(Cur), FatOffsetOf(Cur) + ENTRY_SIZE)
           # Slice(infile, FatOffsetOf(Cur), FatOffsetOf(Cur) + ENTRY_SIZE)
    /\ Slice(raw, 0, SECTOR_MAP_START) = Slice(infile, 0, SECTOR_MAP_START)
    /\ Slice(raw, sector_size, FatOffsetOf(Cur))
           = Slice(infile, sector_size, FatOffsetOf(Cur))
    /\ Slice(raw, FatOffsetOf(Cur) + ENTRY_SIZE, 3 * sector_size)
           = Slice(infile, FatOffsetOf(Cur) + ENTRY_SIZE, 3 * sector_size)

\* C38: the loaded image has a length that is a multiple of sector_size, and
\* after any sequence of inject, rm, rmdir, flags and cd calls the image
\* buffer has the length it had when it was loaded, so that commit writes a
\* file of the original size.
ConstantLength ==
    Loaded =>
        /\ Len(infile) % sector_size = 0
        /\ Len(raw) = Len(infile)
        /\ outfile # NoFile => Len(outfile) = Len(infile)

\* a commit after an inject of the two-sector file b and a removal: the file
\* written differs from the loaded one and has its length
ConstantLengthWitness ==
    /\ last.op = "commit"
    /\ nops = 3
    /\ mutated
    /\ outfile # infile
    /\ Len(outfile) = Len(infile)
    /\ GetEntry(raw, Cur, NameB, "file") # NoEntry
    /\ GetEntry(raw, Cur, NameD, "dir") = NoEntry
    /\ Len(path) = 1

----------------------------------------------------------------------------
(* Properties of the end of a script. *)

\* the run of the script is over
Ended == phase \in {"exited", "aborted", "crashed"}

\* the run ended at the line "exit" or at the end of the script: no line
\* before reported a failure or raised
EveryLineSucceeded ==
    \/ last.op = "exit" /\ last.args = <<>>
    \/ last.op = "next"

\* C39: a run of a script in which every command succeeds ends with exit
\* status 0, when the last line is "exit" and when the script ends (or is
\* empty) without a line "exit".
CleanCompletion ==
    (Ended /\ EveryLineSucceeded) => phase = "exited"

====
